---------------------------- MODULE Spec2Model ----------------------------
(***************************************************************************)
(* State-machine model of the MCP gateway core: the port allocator         *)
(* (PortManager), the process supervisor (ProcessManager), the stdio/HTTP  *)
(* adapter (StdioHttpAdapter) and the WebSocket relay                      *)
(* (WebSocketProxyService).  Each component has its own specification      *)
(* (SpecPorts, SpecProc, SpecStdio, SpecWs); the variables of the other    *)
(* components stay at their initial values.                                *)
(***************************************************************************)
EXTENDS Integers, Sequences, FiniteSets, TLC

(***************************************************************************)
(* Bounds of the model.                                                    *)
(***************************************************************************)
NumPorts == 2       \* size of the port range [startPort, endPort]
NumNames == 3       \* number of distinct server names
MaxTimers == 2      \* reservation timers pending at the same time

(***************************************************************************)
(* Generic helpers for JavaScript Map objects, modelled as functions whose *)
(* domain is the set of keys present.                                      *)
(***************************************************************************)
MapSet(m, k, v) == [x \in DOMAIN m \cup {k} |-> IF x = k THEN v ELSE m[x]]

MapDelete(m, k) == [x \in DOMAIN m \ {k} |-> m[x]]

EmptyMap == [x \in {} |-> 0]

(***************************************************************************)
(*                         PortManager                                     *)
(***************************************************************************)
VARIABLES
    allocations,    \* Map<number, PortAllocation>: port -> [serverName, reserved]
    nameToPort,     \* Map<string, number>
    reservations,   \* Map<number, Timeout>: port -> timer id
    pmTimers,       \* pending setTimeout callbacks: timer id -> port
    pmLast          \* the last PortManager call: operation, arguments, result

pmVars == <<allocations, nameToPort, reservations, pmTimers, pmLast>>

startPort == 3001

endPort == startPort + NumPorts - 1

RangePorts == startPort..endPort

\* Ports a caller may name: the range and one port outside it.
OutPorts == {endPort + 1}

AnyPorts == RangePorts \cup OutPorts

\* The answers of the OS probe (isPortAvailable) during one call, as the set of
\* ports it reports free.  A port of the range may probe free or busy whether
\* or not it is allocated (an allocated port is free until its consumer binds
\* it); nothing is bound outside the range.  A call stops at the first port
\* that probes free, so results with at most one free port of the range
\* produce every outcome.
ProbeResults == {OutPorts} \cup {{p} \cup OutPorts : p \in RangePorts}

Names == 1..NumNames

NoPort == 0     \* undefined (a missing preferredPort / port argument, no result)

\* getPortForServer(serverName): the port or undefined.
getPortForServer(serverName) ==
    IF serverName \in DOMAIN nameToPort THEN nameToPort[serverName] ELSE NoPort

\* getServerForPort(port): the server name or undefined (0).
getServerForPort(port) ==
    IF port \in DOMAIN allocations THEN allocations[port].serverName ELSE 0

\* doAllocatePort: the two Map.set calls.
doAllocatePortAllocations(serverName, port) ==
    MapSet(allocations, port, [serverName |-> serverName, reserved |-> FALSE])

doAllocatePortNames(serverName, port) == MapSet(nameToPort, serverName, port)

\* The early return of allocatePort: the port the name holds, if any.
ExistingPortNone(serverName) == NoPort

existingPort(serverName) == getPortForServer(serverName)

\* The preferred-port branch: the probe says free and the port is in range.
\* `free` is the set of ports the OS probe (isPortAvailable) reports free.
PreferredAnyRange(preferredPort, free) ==
    preferredPort # NoPort /\ preferredPort \in free

preferredUsable(preferredPort, free) ==
    /\ preferredPort # NoPort
    /\ preferredPort \in free
    /\ preferredPort >= startPort /\ preferredPort <= endPort

\* The scan of the range: the ports that are not in the table and probe free.
scanCandidates(free) == {p \in RangePorts : p \notin DOMAIN allocations /\ p \in free}

Min(S) == CHOOSE x \in S : \A y \in S : x <= y

\* The port allocatePort settles on for a name without a port, or NoPort when it
\* throws "No available ports in range".
chosenPort(preferredPort, free) ==
    IF preferredUsable(preferredPort, free) THEN preferredPort
    ELSE IF scanCandidates(free) # {} THEN Min(scanCandidates(free))
    ELSE NoPort

\* The record of a call: the operation, the name it was called for, for
\* allocatePort the preferred port when it lies outside the range (port) and
\* the port the name held when it was called (had), the port returned (ret)
\* and whether the call returned (ok) or threw / returned false.
PmCall(op, name, port, ret, ok) ==
    [op |-> op, name |-> name,
     port |-> IF op = "allocatePort" /\ port \in OutPorts THEN port ELSE NoPort,
     had |-> IF op = "allocatePort" THEN getPortForServer(name) ELSE NoPort,
     ret |-> ret, ok |-> ok]

\* allocatePort(serverName, preferredPort?) run to completion; the OS probe
\* results of the call are the input `free`.
allocatePort(serverName, preferredPort, free) ==
    LET had == existingPort(serverName)
        port == chosenPort(preferredPort, free)
        PmCallA(ret, ok) ==
            PmCall("allocatePort", serverName, preferredPort, ret, ok)
    IN  /\ UNCHANGED <<reservations, pmTimers>>
        /\ IF had # NoPort
           THEN /\ UNCHANGED <<allocations, nameToPort>>
                /\ pmLast' = PmCallA(had, TRUE)
           ELSE IF port # NoPort
           THEN /\ allocations' = doAllocatePortAllocations(serverName, port)
                /\ nameToPort' = doAllocatePortNames(serverName, port)
                /\ pmLast' = PmCallA(port, TRUE)
           ELSE /\ UNCHANGED <<allocations, nameToPort>>
                /\ pmLast' = PmCallA(NoPort, FALSE)

\* The port reservePort works on, or NoPort when it throws.
reserveTarget(serverName, port) ==
    IF port # NoPort
    THEN IF port \in DOMAIN allocations /\ allocations[port].serverName = serverName
         THEN port ELSE NoPort
    ELSE IF getPortForServer(serverName) \in DOMAIN allocations
         THEN getPortForServer(serverName) ELSE NoPort

\* setTimeout returns a timer that is not pending; at most MaxTimers are pending.
FreeTimers == (1..MaxTimers) \ DOMAIN pmTimers

NewTimer == Min(FreeTimers)

\* reservePort(serverName, port?)
reservePort(serverName, port) ==
    LET allocatedPort == reserveTarget(serverName, port)
    IN  /\ UNCHANGED nameToPort
        /\ IF allocatedPort = NoPort
           THEN /\ UNCHANGED <<allocations, reservations, pmTimers>>
                /\ pmLast' = PmCall("reservePort", serverName, port, NoPort, FALSE)
           ELSE /\ FreeTimers # {}
                /\ allocations' = [allocations EXCEPT ![allocatedPort].reserved = TRUE]
                /\ pmTimers' = MapSet(pmTimers, NewTimer, allocatedPort)
                /\ reservations' = MapSet(reservations, allocatedPort, NewTimer)
                /\ pmLast' = PmCall("reservePort", serverName, port, allocatedPort, TRUE)

\* Whether releasePort(serverName) gets past its two early returns.
releasable(serverName) ==
    /\ serverName \in DOMAIN nameToPort
    /\ nameToPort[serverName] \in DOMAIN allocations
    /\ allocations[nameToPort[serverName]].serverName = serverName

\* releasePort(serverName)
releasePort(serverName) ==
    LET had == getPortForServer(serverName)
    IN  /\ IF releasable(serverName)
           THEN /\ pmTimers' = IF had \in DOMAIN reservations
                               THEN MapDelete(pmTimers, reservations[had])
                               ELSE pmTimers
                /\ reservations' = MapDelete(reservations, had)
                /\ allocations' = MapDelete(allocations, had)
                /\ nameToPort' = MapDelete(nameToPort, serverName)
                /\ pmLast' = PmCall("releasePort", serverName, NoPort, had, TRUE)
           ELSE /\ UNCHANGED <<allocations, nameToPort, reservations, pmTimers>>
                /\ pmLast' = PmCall("releasePort", serverName, NoPort, NoPort, FALSE)

\* A timer callback that releases the port with the reservation (mutant).
ReleaseReservationAndPort(timer) ==
    LET port == pmTimers[timer]
    IN  /\ pmTimers' = MapDelete(pmTimers, timer)
        /\ reservations' = MapDelete(reservations, port)
        /\ allocations' = MapDelete(allocations, port)
        /\ nameToPort' = [n \in {x \in DOMAIN nameToPort : nameToPort[x] # port}
                             |-> nameToPort[n]]
        /\ pmLast' = PmCall("releaseReservation", 0, port, NoPort, TRUE)

\* The setTimeout callback of reservePort fires: releaseReservation(port).
releaseReservation(timer) ==
    LET port == pmTimers[timer]
    IN  /\ UNCHANGED nameToPort
        /\ IF port \in DOMAIN allocations
           THEN /\ pmTimers' = IF port \in DOMAIN reservations
                               THEN MapDelete(MapDelete(pmTimers, timer), reservations[port])
                               ELSE MapDelete(pmTimers, timer)
                /\ reservations' = MapDelete(reservations, port)
                /\ allocations' = [allocations EXCEPT ![port].reserved = FALSE]
           ELSE /\ pmTimers' = MapDelete(pmTimers, timer)
                /\ UNCHANGED <<allocations, reservations>>
        /\ pmLast' = PmCall("releaseReservation", 0, port, NoPort, TRUE)

\* cleanup(): clear every reservation timer held in the map, empty the maps.
pmCleanup ==
    /\ pmTimers' = [t \in {x \in DOMAIN pmTimers :
                              \A p \in DOMAIN reservations : reservations[p] # x}
                       |-> pmTimers[t]]
    /\ reservations' = EmptyMap
    /\ allocations' = EmptyMap
    /\ nameToPort' = EmptyMap
    /\ pmLast' = PmCall("cleanup", 0, NoPort, NoPort, TRUE)

PmInit ==
    /\ allocations = EmptyMap
    /\ nameToPort = EmptyMap
    /\ reservations = EmptyMap
    /\ pmTimers = EmptyMap
    /\ pmLast = PmCall("new", 0, NoPort, NoPort, TRUE)

\* A call of allocatePort.  No probe is made for a name that holds a port, so
\* the probe results are an input only for a name without one.
AllocatePortCall ==
    \E n \in Names, pref \in AnyPorts \cup {NoPort} :
        IF n \in DOMAIN nameToPort
        THEN allocatePort(n, pref, {})
        ELSE \E free \in ProbeResults : allocatePort(n, pref, free)

ReservePortCall == \E n \in Names, p \in RangePorts \cup {NoPort} : reservePort(n, p)

ReleasePortCall == \E n \in Names : releasePort(n)

ReservationTimerFires == \E t \in DOMAIN pmTimers : releaseReservation(t)

CleanupCall == pmCleanup


(***************************************************************************)
(*                 PortManager.allocatePort, turn by turn                  *)
(*                                                                         *)
(* allocatePort is suspended at every "await this.isPortAvailable(...)";   *)
(* other calls run while it is.  A suspended call keeps its arguments and  *)
(* the port it is probing.                                                 *)
(***************************************************************************)
VARIABLES
    calls           \* the suspended allocatePort calls

allocVars == <<calls>>

MaxCalls == 2           \* allocatePort calls suspended at the same time

AllocInit == calls = <<>>

\* "for (let port = ...; port <= endPort; port++)" from port `from` up to its
\* next probe: the first port that is not in the table, or NoPort when the
\* loop ends.
nextCandidate(from) ==
    IF \E p \in RangePorts : p >= from /\ p \notin DOMAIN allocations
    THEN Min({p \in RangePorts : p >= from /\ p \notin DOMAIN allocations})
    ELSE NoPort

\* The scan of call `call` goes on from port `from`: it is suspended at the
\* probe of the next candidate (kept at the place of the call), or throws.
scanFrom(rest, call, from) ==
    LET port == nextCandidate(from)
    IN  IF port = NoPort
        THEN /\ calls' = rest
             /\ pmLast' = PmCall("allocatePort", call.name, call.preferred, NoPort, FALSE)
        ELSE /\ calls' = Append(rest, [call EXCEPT !.phase = "scan", !.port = port])
             /\ pmLast' = PmCall("probe", call.name, NoPort, port, TRUE)

\* A caller invokes allocatePort(serverName, preferredPort): the call returns
\* the port the name holds, or is suspended at its first probe.
AllocatePortBegins ==
    \E serverName \in Names, preferredPort \in {NoPort} \cup AnyPorts :
        LET call == [name |-> serverName, preferred |-> preferredPort,
                     phase |-> "preferred", port |-> preferredPort]
        IN  /\ Len(calls) < MaxCalls
            /\ UNCHANGED <<allocations, nameToPort, reservations, pmTimers>>
            /\ IF existingPort(serverName) # NoPort
               THEN /\ UNCHANGED calls
                    /\ pmLast' = PmCall("allocatePort", serverName, preferredPort,
                                        existingPort(serverName), TRUE)
               ELSE IF preferredPort # NoPort
               THEN /\ calls' = Append(calls, call)
                    /\ pmLast' = PmCall("probe", serverName, NoPort, preferredPort, TRUE)
               ELSE scanFrom(calls, call, startPort)

\* isPortAvailable answers the i-th suspended call: doAllocatePort for a
\* port that is free (and, in the preferred branch, in the range), the scan
\* otherwise.
ProbeAnswers ==
    \E i \in 1..Len(calls), available \in BOOLEAN :
        LET call == calls[i]
            rest == SubSeq(calls, 1, i - 1) \o SubSeq(calls, i + 1, Len(calls))
            allocates ==
                IF call.phase = "preferred"
                THEN preferredUsable(call.port, IF available THEN {call.port} ELSE {})
                ELSE available
        IN  /\ UNCHANGED <<reservations, pmTimers>>
            /\ IF allocates
               THEN /\ allocations' = doAllocatePortAllocations(call.name, call.port)
                    /\ nameToPort' = doAllocatePortNames(call.name, call.port)
                    /\ calls' = rest
                    /\ pmLast' = PmCall("allocatePort", call.name, call.preferred,
                                        call.port, TRUE)
               ELSE /\ UNCHANGED <<allocations, nameToPort>>
                    /\ scanFrom(rest, call,
                                IF call.phase = "preferred" THEN startPort
                                ELSE call.port + 1)


(***************************************************************************)
(*                         ProcessManager                                  *)
(*                                                                         *)
(* The maps processes and childProcesses are keyed by server name and      *)
(* every handler touches the entries of its own name only, so the model    *)
(* follows one server name.  An action is one turn of the event loop: a    *)
(* call or an event handler together with the promise continuations it     *)
(* makes runnable.                                                         *)
(***************************************************************************)
VARIABLES
    processInfo,    \* processes.get(name): the ProcessInfo record
    childHandle,    \* childProcesses.get(name): a child id, 0 when absent
    kids,           \* the ChildProcess objects spawned: child id -> record
    stops,          \* stopServer calls suspended in waitForProcessExit, in
                    \* the order their 'exit' listeners were registered
    restartTimers,  \* pending auto-restart timers (setTimeout -> startServer)
    procLast,       \* the last turn: operation, events emitted, signals sent
    scenario        \* observer of the crash-loop run: whether the run so far
                    \* is one, and the automatic restarts performed in it

procVars ==
    <<processInfo, childHandle, kids, stops, restartTimers, procLast, scenario>>

maxRestarts == 2        \* ProcessManagerConfig.maxRestarts of the model
MaxKids == 2            \* ChildProcess objects tracked at the same time
MaxStops == 1           \* stopServer calls suspended at the same time
MaxRestartTimers == 2   \* auto-restart timers pending at the same time

KidIds == 1..MaxKids

\* The commands of the model: none, one whose basename is in the allowlist
\* of the stdio adapter, one whose basename is not.
Commands == {"", "node", "sh"}

\* The descriptors: detectedType, command, restart.
Descriptors ==
    [detectedType : {"stdio", "http"}, command : Commands, restart : BOOLEAN]

NoServer == [detectedType |-> "none", command |-> "", restart |-> FALSE]

\* No entry in processes (state "absent"); pid 0 is an undefined pid.
NoInfo ==
    [server |-> NoServer, state |-> "absent", pid |-> 0, restartCount |-> 0,
     lastError |-> "none", startedAt |-> FALSE, stoppedAt |-> FALSE]

\* The record startServer creates for an unmanaged name.
NewInfo(server) == [NoInfo EXCEPT !.server = server, !.state = "idle"]

\* A ChildProcess object: st is "alive" until its 'exit' event is emitted;
\* killed is ChildProcess.killed; settled says whether the promise of
\* spawnProcess was resolved or rejected; the two timers of spawnProcess.
FreeKid ==
    [st |-> "free", killed |-> FALSE, settled |-> FALSE,
     startupTimer |-> FALSE, stableTimer |-> FALSE]

NewKid ==
    [st |-> "alive", killed |-> FALSE, settled |-> FALSE,
     startupTimer |-> TRUE, stableTimer |-> TRUE]

\* The state a turn works on; out and sig collect the events emitted and the
\* kill() calls made during the turn.
Here ==
    [info |-> processInfo, handle |-> childHandle, kids |-> kids, stops |-> stops,
     rtimers |-> restartTimers, out |-> <<>>, sig |-> <<>>, full |-> FALSE]

Emit(S, event) == [S EXCEPT !.out = Append(S.out, event)]

\* The auto-restart test of the source with an off-by-one (mutant).
RestartAllowedOffByOne(info) == info.server.restart /\ info.restartCount <= maxRestarts

\* "server.restart && restartCount < maxRestarts"
restartAllowed(info) == info.server.restart /\ info.restartCount < maxRestarts

\* An auto-restart that arms the timer without counting it (mutant).
ScheduleRestartUncounted(S) ==
    IF restartAllowed(S.info) THEN [S EXCEPT !.rtimers = S.rtimers + 1] ELSE S

\* An auto-restart that does not look at the descriptor's restart flag
\* (mutant).
ScheduleRestartUnasked(S) ==
    IF S.info.restartCount < maxRestarts
    THEN [S EXCEPT !.info.restartCount = S.info.restartCount + 1,
                   !.rtimers = S.rtimers + 1]
    ELSE S

\* Auto-restart if enabled and under limit: restartCount++, setTimeout.
scheduleRestart(S) ==
    IF restartAllowed(S.info)
    THEN [S EXCEPT !.info.restartCount = S.info.restartCount + 1,
                   !.rtimers = S.rtimers + 1]
    ELSE S

\* The catch block of startServer.
startFailed(S, error) ==
    scheduleRestart(Emit([S EXCEPT !.info.state = "failed", !.info.lastError = error],
                         "serverFailed"))

\* reject(error) of the spawnProcess promise of child c and, when it was
\* pending, the catch block of the startServer that awaits it.
rejectSpawn(S, c, error) ==
    IF S.kids[c].settled THEN S
    ELSE startFailed([S EXCEPT !.kids[c].settled = TRUE], error)

\* A successful start that clears the restart count (mutant).
ResolveSpawnResetsCount(S, c) ==
    IF S.kids[c].settled THEN S
    ELSE Emit([S EXCEPT !.kids[c].settled = TRUE, !.info.state = "running",
                        !.info.restartCount = 0],
              "serverStarted")

\* resolve() of the spawnProcess promise of child c and, when it was pending,
\* the continuation of the startServer that awaits it.
resolveSpawn(S, c) ==
    IF S.kids[c].settled THEN S
    ELSE Emit([S EXCEPT !.kids[c].settled = TRUE, !.info.state = "running"],
              "serverStarted")

\* childProcess.kill(signal): the signal is delivered, and killed set, while
\* the child has not been reaped.
kill(S, c, signal) ==
    [S EXCEPT !.sig = Append(S.sig, signal),
              !.kids[c].killed = S.kids[c].killed \/ S.kids[c].st = "alive"]

FreeKids(S) == {c \in KidIds : S.kids[c].st = "free"}

\* spawnProcess up to the return of its promise.  spawnOk says whether spawn()
\* produced a process; when it did not, the 'error' event follows on the next
\* tick, before any other event, and its handler runs here.
spawnProcess(S, spawnOk) ==
    IF S.info.server.detectedType = "http" THEN startFailed(S, "HttpNotSpawnable")
    ELSE IF S.info.server.command = "" THEN startFailed(S, "NoCommand")
    ELSE IF ~spawnOk THEN startFailed([S EXCEPT !.handle = 0], "SpawnError")
    ELSE IF FreeKids(S) = {} THEN [S EXCEPT !.full = TRUE]
    ELSE LET c == Min(FreeKids(S))
         IN  [S EXCEPT !.info.pid = c, !.handle = c, !.kids[c] = NewKid]

\* The early return of startServer without its test for "starting" (mutant).
AlreadyRunningOnly(S) == S.info.state = "running"

\* "info.state === RUNNING || info.state === STARTING"
alreadyStarted(S) == S.info.state \in {"running", "starting"}

\* startServer(server, port) up to its first suspension.  The callers pass
\* the descriptor of the record once the name is managed.
startServer(S, server, spawnOk) ==
    LET S1 == IF S.info.state = "absent" THEN [S EXCEPT !.info = NewInfo(server)] ELSE S
    IN  IF alreadyStarted(S1) THEN S1
        ELSE spawnProcess(
                 Emit([S1 EXCEPT !.info.state = "starting",
                                 !.info.startedAt = TRUE,
                                 !.info.lastError = "none"], "serverStarting"),
                 spawnOk)

\* The early return of stopServer without its test for "stopping" (mutant).
AlreadyStoppedOnly(S) == S.info.state = "stopped"

\* "state === STOPPED || state === STOPPING"
alreadyStopped(S) == S.info.state \in {"stopped", "stopping"}

\* stopServer(name, signal) up to its first suspension; origin tells whether
\* restartServer awaits the call.  The call is suspended iff it appends to stops.
stopServer(S, signal, origin) ==
    IF alreadyStopped(S) THEN S
    ELSE IF S.handle = 0 \/ S.info.pid = 0 THEN [S EXCEPT !.info.state = "stopped"]
    ELSE LET S1 == kill([S EXCEPT !.info.state = "stopping"], S.handle, signal)
         IN  [S1 EXCEPT !.stops = Append(S1.stops,
                  [child |-> S.handle, phase |-> "graceful", origin |-> origin])]

\* getRunningProcesses()
getRunningProcesses(S) == IF S.info.state = "running" THEN {S.info.server} ELSE {}

\* stopAllServers() up to its suspension: stopServer(name) for the processes
\* that are running.
stopAllServers(S) ==
    IF getRunningProcesses(S) = {} THEN S ELSE stopServer(S, "SIGTERM", "stopAll")

\* Whether a stopAllServers call awaits the stopServer calls it made.
stopAllPending(waiting) == \E i \in 1..Len(waiting) : waiting[i].origin = "stopAll"

\* restartServer after its stopServer has returned: reset the count, start.
restartContinue(S, spawnOk) ==
    startServer([S EXCEPT !.info.restartCount = 0], S.info.server, spawnOk)

\* The rest of a stopServer call whose waitForProcessExit resolved.
stopResolved(S, stop) ==
    LET reason == IF stop.phase = "graceful" THEN "serverStopped:manual"
                  ELSE "serverStopped:forced"
        S1 == Emit([S EXCEPT !.info.state = "stopped", !.info.stoppedAt = TRUE], reason)
    IN  [S1 EXCEPT !.handle = 0]

RECURSIVE resolveStops(_, _)
\* The stopServer calls resumed by one 'exit' event, in the order of their
\* once('exit') listeners.
resolveStops(S, waiting) ==
    IF waiting = <<>> THEN S
    ELSE resolveStops(stopResolved(S, Head(waiting)), Tail(waiting))

RECURSIVE resumeRestarts(_, _, _)
\* The restartServer calls whose stopServer returned, one tick later.
resumeRestarts(S, waiting, spawnOk) ==
    IF waiting = <<>> THEN S
    ELSE resumeRestarts(IF Head(waiting).origin = "restart"
                        THEN restartContinue(S, spawnOk) ELSE S,
                        Tail(waiting), spawnOk)

\* The 'exit' event of child c: the handler of spawnProcess, then the
\* listeners of waitForProcessExit.
exitEvent(S, c, spawnOk) ==
    LET S1 == [S EXCEPT !.kids[c].st = "exited", !.kids[c].startupTimer = FALSE,
                        !.handle = 0]
        S2 == IF S1.info.state = "starting"
              THEN rejectSpawn(S1, c, "ExitedDuringStartup")
              ELSE IF S1.info.state = "running"
              THEN scheduleRestart(Emit([S1 EXCEPT !.info.state = "failed",
                                                   !.info.stoppedAt = TRUE],
                                        "serverStopped:crashed"))
              ELSE S1
        mine(stop) == stop.child = c
        others(stop) == stop.child # c
        resumed == SelectSeq(S2.stops, mine)
    IN  resumeRestarts(resolveStops([S2 EXCEPT !.stops = SelectSeq(S2.stops, others)],
                                    resumed),
                       resumed, spawnOk)

\* The 1 s timer of spawnProcess.
stableTimerFired(S, c) ==
    LET S1 == [S EXCEPT !.kids[c].stableTimer = FALSE]
    IN  IF ~S1.kids[c].killed
        THEN resolveSpawn([S1 EXCEPT !.kids[c].startupTimer = FALSE], c)
        ELSE S1

\* The startupTimeout timer of spawnProcess.
startupTimerFired(S, c) ==
    rejectSpawn(kill([S EXCEPT !.kids[c].startupTimer = FALSE], c, "SIGTERM"),
                c, "StartupTimeout")

RemoveAt(q, i) == SubSeq(q, 1, i - 1) \o SubSeq(q, i + 1, Len(q))

\* The timer of waitForProcessExit of the i-th suspended stopServer fires:
\* after the graceful wait SIGKILL and a second wait; after the forced wait
\* the call throws, "finally" deleting the handle.
stopWaitTimeout(S, i) ==
    LET stop == S.stops[i]
        rest == [S EXCEPT !.stops = RemoveAt(S.stops, i)]
    IN  IF stop.phase = "graceful"
        THEN LET S1 == kill(rest, stop.child, "SIGKILL")
             IN  [S1 EXCEPT !.stops = Append(S1.stops, [stop EXCEPT !.phase = "forced"])]
        ELSE [rest EXCEPT !.handle = 0]

\* A ChildProcess object that nothing will touch again is forgotten.
collect(S) ==
    [S EXCEPT !.kids = [c \in KidIds |->
        IF /\ S.kids[c].st = "exited"
           /\ (S.kids[c].settled \/ S.kids[c].killed \/ ~S.kids[c].stableTimer)
        THEN FreeKid ELSE S.kids[c]]]

\* Whether the turn that ends in S spawned a child.
spawned(S) ==
    /\ S.info.state = "starting"
    /\ processInfo.state \notin {"running", "starting"}

NotCrashLoop == [stage |-> "over", restarts |-> 0]

\* The crash-loop run: one startServer for a descriptor with restart = true,
\* then nothing but children that reach running and exit afterwards and the
\* restart timers they arm; restarts counts the children those timers spawn.
\* Any other turn (a manual call, a failed start, an exit before running, a
\* timeout) ends it.
observe(S, op) ==
    IF op = "startServer"
    THEN IF scenario.stage = "before" /\ S.info.server.restart /\ spawned(S)
         THEN [stage |-> "flaky", restarts |-> 0]
         ELSE NotCrashLoop
    ELSE IF scenario.stage # "flaky" THEN NotCrashLoop
    ELSE IF op = "stableTimer" /\ S.info.state = "running" THEN scenario
    ELSE IF op = "exit" /\ processInfo.state = "running" THEN scenario
    ELSE IF op = "restartTimer" /\ spawned(S)
         THEN [scenario EXCEPT !.restarts = scenario.restarts + 1]
    ELSE NotCrashLoop

\* The end of a turn: the variables take the values of S.
Commit(S0, op, threw) ==
    LET S == collect(S0)
    IN  /\ processInfo' = S.info
        /\ scenario' = observe(S, op)
        /\ childHandle' = S.handle
        /\ kids' = S.kids
        /\ stops' = S.stops
        /\ restartTimers' = S.rtimers
        /\ procLast' = [op |-> op, before |-> processInfo.state, threw |-> threw,
                        out |-> S.out, sig |-> S.sig]
        /\ ~S.full
        /\ Len(S.stops) <= MaxStops
        /\ S.rtimers <= MaxRestartTimers

ProcInit ==
    /\ processInfo = NoInfo
    /\ childHandle = 0
    /\ kids = [c \in KidIds |-> FreeKid]
    /\ stops = <<>>
    /\ restartTimers = 0
    /\ procLast = [op |-> "new", before |-> "absent", threw |-> FALSE,
                   out |-> <<>>, sig |-> <<>>]
    /\ scenario = [stage |-> "before", restarts |-> 0]

\* Whether a turn made startServer throw: it emitted serverFailed.
failed(S) == \E i \in 1..Len(S.out) : S.out[i] = "serverFailed"

\* A caller invokes startServer(server, port).
StartServerCall ==
    \E server \in Descriptors, spawnOk \in BOOLEAN :
        /\ processInfo.state # "absent" => server = processInfo.server
        /\ LET S == startServer(Here, server, spawnOk)
           IN  Commit(S, "startServer", failed(S))

\* An auto-restart timer fires: startServer(server, port).
RestartTimerFires ==
    \E spawnOk \in BOOLEAN :
        /\ restartTimers > 0
        /\ LET S == startServer([Here EXCEPT !.rtimers = restartTimers - 1],
                                processInfo.server, spawnOk)
           IN  Commit(S, "restartTimer", failed(S))

\* A caller invokes stopServer(name, signal).
StopServerCall ==
    \E signal \in {"SIGTERM", "SIGINT"} :
        IF processInfo.state = "absent"
        THEN Commit(Here, "stopServer", TRUE)
        ELSE Commit(stopServer(Here, signal, "caller"), "stopServer", FALSE)

\* A caller invokes restartServer(name).
RestartServerCall ==
    \E spawnOk \in BOOLEAN :
        IF processInfo.state = "absent"
        THEN Commit(Here, "restartServer", TRUE)
        ELSE LET S1 == IF processInfo.state \in {"running", "starting"}
                       THEN stopServer(Here, "SIGTERM", "restart")
                       ELSE Here
                 S2 == IF Len(S1.stops) > Len(stops) THEN S1
                       ELSE restartContinue(S1, spawnOk)
             IN  Commit(S2, "restartServer", failed(S2))

\* A child exits (on its own, or after a signal).
ChildExits ==
    \E c \in KidIds, spawnOk \in BOOLEAN :
        /\ kids[c].st = "alive"
        /\ Commit(exitEvent(Here, c, spawnOk), "exit", FALSE)

\* A caller invokes stopAllServers().
StopAllServersCall ==
    /\ ~stopAllPending(stops)
    /\ Commit(stopAllServers(Here), "stopAllServers", FALSE)

\* The 1 s timer of spawnProcess fires.
StableTimerFires ==
    \E c \in KidIds :
        /\ kids[c].stableTimer
        /\ Commit(stableTimerFired(Here, c), "stableTimer", FALSE)

\* The startupTimeout timer fires; it is the longer of the two timers.
StartupTimerFires ==
    \E c \in KidIds :
        /\ kids[c].startupTimer /\ ~kids[c].stableTimer
        /\ Commit(startupTimerFired(Here, c), "startupTimer", FALSE)

\* The timer of a waitForProcessExit fires.
StopWaitTimesOut ==
    \E i \in 1..Len(stops) :
        Commit(stopWaitTimeout(Here, i), "stopTimeout", stops[i].phase = "forced")

(***************************************************************************)
(*                         StdioHttpAdapter                                *)
(*                                                                         *)
(* One adapter and its child.  The child is the environment: it reads the  *)
(* request lines from its stdin in order and writes one reply for each to  *)
(* its stdout, in one chunk or in two.                                     *)
(***************************************************************************)
VARIABLES
    requests,       \* the HTTP requests of the adapter: id -> record
    childStdin,     \* request lines written to the child and not yet read
    childStdout,    \* chunks the child has written, not yet delivered
    stdioLast,      \* the last turn
    quiet           \* observer: a request timed out and nothing has been
                    \* written to the child's stdin since

stdioVars == <<requests, childStdin, childStdout, stdioLast, quiet>>

MaxRequests == 2        \* HTTP requests that reach the adapter
maxBufferSize == 1      \* StdioAdapterConfig.maxBufferSize of the model, in bytes

RequestIds == 1..MaxRequests

\* The body sizes a client sends: up to one byte over the limit.
BodySizes == 0..(maxBufferSize + 1)

Omitted == 0            \* a reply without a statusCode field

\* The statusCode of a reply: omitted, or a code writeHead accepts.
StatusCodes == {Omitted, 201}

\* The value the child puts in the body field of its reply to request r.
bodyOf(r) == [body |-> r]

NoResponse == [statusCode |-> Omitted, body |-> bodyOf(0)]

\* size, valid: the length of the request body and whether the request
\* passes validateAndSanitiseRequest.
\* phase: "idle" (not arrived), "collecting" (collectRequestBody pending),
\* "waiting" (sendToStdioProcess pending), "done" (response written).
\* written: its line was written to the child's stdin.
\* listening: its onData listener is attached; timer: its timeout is armed;
\* responseData: the chunks its listener has accumulated.
\* response: the reply its listener parsed and resolved the promise with.
\* status, sent: the status and the body written to the HTTP client.
NoRequest ==
    [size |-> 0, valid |-> TRUE, phase |-> "idle", written |-> FALSE,
     listening |-> FALSE, timer |-> FALSE, responseData |-> <<>>,
     response |-> NoResponse, status |-> 0, sent |-> bodyOf(0)]

\* The chunks of the reply to request r: whole, or split in two; late says
\* whether the child wrote the chunk while quiet.
wholeReply(r, statusCode) ==
    [of |-> r, part |-> "whole", statusCode |-> statusCode, late |-> quiet]
headOfReply(r, statusCode) ==
    [of |-> r, part |-> "head", statusCode |-> statusCode, late |-> quiet]
tailOfReply(r, statusCode) ==
    [of |-> r, part |-> "tail", statusCode |-> statusCode, late |-> quiet]

\* JSON.parse(responseData.trim()) succeeds: the text is one complete reply.
parses(responseData) ==
    \/ Len(responseData) = 1 /\ responseData[1].part = "whole"
    \/ /\ Len(responseData) = 2
       /\ responseData[1].part = "head" /\ responseData[2].part = "tail"
       /\ responseData[1].of = responseData[2].of

\* JSON.parse(responseData.trim()): the reply object.
parse(responseData) ==
    [statusCode |-> responseData[1].statusCode, body |-> bodyOf(responseData[1].of)]

\* JSON.stringify(response): the text of the whole reply object.
stringify(response) == [json |-> response]

\* "response.statusCode || 200"
statusOr200(statusCode) == IF statusCode = Omitted THEN 200 ELSE statusCode

StdioInit ==
    /\ requests = [r \in RequestIds |-> NoRequest]
    /\ childStdin = <<>>
    /\ childStdout = <<>>
    /\ stdioLast = [op |-> "new", request |-> 0]
    /\ quiet = FALSE

\* handleHttpRequest up to the await of collectRequestBody, for a request
\* with a body of the given size.
handleHttpRequest(r, size, valid) ==
    /\ requests[r].phase = "idle"
    /\ requests' = [requests EXCEPT ![r].phase = "collecting",
                                    ![r].size = size, ![r].valid = valid]
    /\ stdioLast' = [op |-> "handleHttpRequest", request |-> r]
    /\ UNCHANGED <<childStdin, childStdout, quiet>>

\* "totalSize > this.config.maxBufferSize"
tooLarge(size) == size > maxBufferSize

\* collectRequestBody settles: a body over the limit rejects, and so does a
\* request that fails validateAndSanitiseRequest; handleHttpRequest catches
\* either and answers 500.  Otherwise sendToStdioProcess up to the return of
\* its promise.
handleMcpRequest(r) ==
    /\ requests[r].phase = "collecting"
    /\ IF ~tooLarge(requests[r].size) /\ requests[r].valid
       THEN /\ requests' = [requests EXCEPT ![r].phase = "waiting",
                                            ![r].written = TRUE,
                                            ![r].listening = TRUE,
                                            ![r].timer = TRUE]
            /\ childStdin' = Append(childStdin, r)
            /\ quiet' = FALSE
       ELSE /\ requests' = [requests EXCEPT ![r].phase = "done", ![r].status = 500]
            /\ UNCHANGED <<childStdin, quiet>>
    /\ stdioLast' = [op |-> "handleMcpRequest", request |-> r]
    /\ UNCHANGED childStdout

\* The child reads the next request line and writes its reply.
childAnswers(split, statusCode) ==
    /\ childStdin # <<>>
    /\ LET r == Head(childStdin)
       IN  childStdout' = childStdout \o
               (IF split THEN <<headOfReply(r, statusCode), tailOfReply(r, statusCode)>>
                ELSE <<wholeReply(r, statusCode)>>)
    /\ childStdin' = Tail(childStdin)
    /\ stdioLast' = [op |-> "childAnswers", request |-> Head(childStdin)]
    /\ UNCHANGED <<requests, quiet>>

\* onData of request r for one chunk; when it resolves the pending promise,
\* handleMcpRequest writes the response.
onData(request, data) ==
    IF ~request.listening THEN request
    ELSE LET responseData == Append(request.responseData, data)
             response == parse(responseData)
             resolved == [request EXCEPT !.responseData = responseData,
                                         !.timer = FALSE,
                                         !.listening = FALSE]
         IN  IF ~parses(responseData)
             THEN [request EXCEPT !.responseData = responseData]
             ELSE IF request.phase # "waiting" THEN resolved
             ELSE [resolved EXCEPT !.phase = "done",
                                   !.response = response,
                                   !.status = statusOr200(response.statusCode),
                                   !.sent = stringify(response)]

\* A 'data' event of the child's stdout: every attached listener runs.
stdoutData ==
    /\ childStdout # <<>>
    /\ requests' = [r \in RequestIds |-> onData(requests[r], Head(childStdout))]
    /\ childStdout' = Tail(childStdout)
    /\ stdioLast' = [op |-> "stdoutData", request |-> Head(childStdout).of]
    /\ UNCHANGED <<childStdin, quiet>>

\* The timeout of sendToStdioProcess for request r fires: the promise is
\* rejected, handleHttpRequest answers 500; the listener stays attached.
requestTimeout(r) ==
    /\ requests[r].timer
    /\ requests' = [requests EXCEPT ![r].timer = FALSE, ![r].phase = "done",
                                    ![r].status = 500]
    /\ stdioLast' = [op |-> "requestTimeout", request |-> r]
    /\ quiet' = TRUE
    /\ UNCHANGED <<childStdin, childStdout>>

(***************************************************************************)
(*                       WebSocketProxyService                             *)
(*                                                                         *)
(* One relayed connection.  Client and backend are the environment; the    *)
(* frames each sends are numbered in the order sent, and a socket delivers *)
(* its frames in that order.                                               *)
(***************************************************************************)
VARIABLES
    connection,     \* the WebSocketConnection record and its two sockets
    others,         \* the records of other clients in the connections table
    fromClient,     \* frames the client sent, not yet received by the relay
    fromServer,     \* frames the backend sent, not yet received by the relay
    toServer,       \* frames the relay sent on targetWs, in order
    toClient,       \* frames the relay sent on clientWs, in order
    wsLast          \* the last turn

wsVars == <<connection, others, fromClient, fromServer, toServer, toClient, wsLast>>

MaxFrames == 3          \* frames each side sends on the connection
maxConnections == 2     \* WebSocketProxyConfig.maxConnections of the model
connectionTimeout == 2  \* WebSocketProxyConfig.connectionTimeout, in pingInterval
NormalClosure == 1000   \* the default close code of closeConnection
CloseCodes == {NormalClosure, 4000}     \* the codes a peer closes with

\* inTable: the record is in connections; connected: its field; clientWs and
\* targetWs: the readyState of the sockets ("none": no socket); sentClient and
\* sentServer: the frames each peer has sent so far; closedClient and
\* closedTarget: the code the relay closed each socket with (0: it has not);
\* idle: the heartbeat sweeps since lastActivity; silence: the heartbeat
\* sweeps since the record was made or a frame was last handled.  A close
\* reason travels with its code and is not kept apart.
NoConnection ==
    [inTable |-> FALSE, connected |-> FALSE, clientWs |-> "none", targetWs |-> "none",
     sentClient |-> 0, sentServer |-> 0, closedClient |-> 0, closedTarget |-> 0,
     idle |-> 0, silence |-> 0]

\* getConnectionCount(): connections.size
getConnectionCount == others + (IF connection.inTable THEN 1 ELSE 0)

\* The limit test of handleConnection letting one connection more in (mutant).
LimitExceeded == getConnectionCount > maxConnections

\* "this.connections.size >= this.config.maxConnections"
limitReached == getConnectionCount >= maxConnections

WsInit ==
    /\ connection = NoConnection
    /\ others = 0
    /\ fromClient = <<>>
    /\ fromServer = <<>>
    /\ toServer = <<>>
    /\ toClient = <<>>
    /\ wsLast = [op |-> "new", frame |-> 0, code |-> 0]

\* ws.send(data) sending the frame twice (mutant).
SendTwice(sent, data) == sent \o <<data, data>>

\* ws.send(data): the frame goes out after those sent before.
send(sent, data) == Append(sent, data)

\* closeConnection(id, code, reason)
closeConnection(conn, code) ==
    IF ~conn.inTable THEN conn
    ELSE LET closesClient == conn.clientWs = "open"
             closesTarget == conn.connected /\ conn.targetWs = "open"
         IN  [conn EXCEPT !.clientWs = IF closesClient THEN "closing" ELSE @,
                          !.closedClient = IF closesClient THEN code ELSE @,
                          !.targetWs = IF closesTarget THEN "closing" ELSE @,
                          !.closedTarget = IF closesTarget THEN code ELSE @,
                          !.inTable = FALSE]

\* handleConnection up to the await of connectToServer: the limit test
\* (close code 1008), the path test (1003), the record, connectToServer.
handleConnection(pathOk, hasPort) ==
    /\ connection.clientWs = "none"
    /\ LET conn == [connection EXCEPT !.clientWs = "open"]
       IN  connection' =
               IF limitReached \/ ~pathOk THEN [conn EXCEPT !.clientWs = "closing"]
               ELSE IF ~hasPort
                    THEN closeConnection([conn EXCEPT !.inTable = TRUE], 1011)
               ELSE [conn EXCEPT !.inTable = TRUE, !.targetWs = "connecting"]
    /\ wsLast' = [op |-> "handleConnection", frame |-> 0,
                  code |-> IF limitReached THEN 1008
                           ELSE IF ~pathOk THEN 1003
                           ELSE IF ~hasPort THEN 1011 ELSE 0]
    /\ UNCHANGED <<others, fromClient, fromServer, toServer, toClient>>

\* handleConnection for the upgrade of another client, whose path is valid
\* and whose server has a port.
otherConnection ==
    /\ others' = IF limitReached THEN others ELSE others + 1
    /\ wsLast' = [op |-> "otherConnection", frame |-> 0,
                  code |-> IF limitReached THEN 1008 ELSE 0]
    /\ UNCHANGED <<connection, fromClient, fromServer, toServer, toClient>>

\* closeConnection for the record of another client.
otherClosed ==
    /\ others > 0
    /\ others' = others - 1
    /\ wsLast' = [op |-> "otherClosed", frame |-> 0, code |-> 0]
    /\ UNCHANGED <<connection, fromClient, fromServer, toServer, toClient>>

\* The 'open' event of targetWs.
targetOpen ==
    /\ connection.targetWs = "connecting"
    /\ connection' = [connection EXCEPT !.targetWs = "open", !.connected = TRUE]
    /\ wsLast' = [op |-> "targetOpen", frame |-> 0, code |-> 0]
    /\ UNCHANGED <<others, fromClient, fromServer, toServer, toClient>>

\* The 'error' event of targetWs while connecting, or the connect timeout:
\* handleConnection closes the connection with 1011.
connectFailed ==
    /\ connection.targetWs = "connecting"
    /\ connection' = closeConnection([connection EXCEPT !.targetWs = "closed"], 1011)
    /\ wsLast' = [op |-> "connectFailed", frame |-> 0, code |-> 1011]
    /\ UNCHANGED <<others, fromClient, fromServer, toServer, toClient>>

\* The client sends its next frame.
clientSends ==
    /\ connection.clientWs = "open"
    /\ connection.sentClient < MaxFrames
    /\ connection' = [connection EXCEPT !.sentClient = connection.sentClient + 1]
    /\ fromClient' = Append(fromClient, connection.sentClient + 1)
    /\ wsLast' = [op |-> "clientSends", frame |-> connection.sentClient + 1, code |-> 0]
    /\ UNCHANGED <<others, fromServer, toServer, toClient>>

\* The backend sends its next frame.
serverSends ==
    /\ connection.targetWs = "open"
    /\ connection.sentServer < MaxFrames
    /\ connection' = [connection EXCEPT !.sentServer = connection.sentServer + 1]
    /\ fromServer' = Append(fromServer, connection.sentServer + 1)
    /\ wsLast' = [op |-> "serverSends", frame |-> connection.sentServer + 1, code |-> 0]
    /\ UNCHANGED <<others, fromClient, toServer, toClient>>

\* "connection.lastActivity = new Date()" of a record that is in the table
\* and connected.
touch(conn) ==
    IF conn.inTable /\ conn.connected THEN [conn EXCEPT !.idle = 0, !.silence = 0]
    ELSE conn

\* The 'message' event of clientWs.
handleClientMessage ==
    /\ fromClient # <<>>
    /\ connection.clientWs \in {"open", "closing"}
    /\ connection' = touch(connection)
    /\ fromClient' = Tail(fromClient)
    /\ toServer' = IF /\ connection.inTable /\ connection.connected
                      /\ connection.targetWs = "open"
                   THEN send(toServer, Head(fromClient))
                   ELSE toServer
    /\ wsLast' = [op |-> "handleClientMessage", frame |-> Head(fromClient), code |-> 0]
    /\ UNCHANGED <<others, fromServer, toClient>>

\* The 'message' event of targetWs.
handleServerMessage ==
    /\ fromServer # <<>>
    /\ connection.targetWs \in {"open", "closing"}
    /\ connection' = touch(connection)
    /\ fromServer' = Tail(fromServer)
    /\ toClient' = IF /\ connection.inTable /\ connection.connected
                      /\ connection.clientWs = "open"
                   THEN send(toClient, Head(fromServer))
                   ELSE toClient
    /\ wsLast' = [op |-> "handleServerMessage", frame |-> Head(fromServer), code |-> 0]
    /\ UNCHANGED <<others, fromClient, toServer>>

\* The 'close' event of clientWs with the client's close code: the socket
\* is closed, frames still in flight are lost; "this.closeConnection(id)",
\* whose code is the default.
clientClosed ==
    \E code \in CloseCodes :
        /\ connection.clientWs \in {"open", "closing"}
        /\ connection' = closeConnection([connection EXCEPT !.clientWs = "closed"],
                                          NormalClosure)
        /\ fromClient' = <<>>
        /\ wsLast' = [op |-> "clientClosed", frame |-> 0, code |-> code]
        /\ UNCHANGED <<others, fromServer, toServer, toClient>>

\* The 'close' event of targetWs with the backend's close code:
\* closeConnection(id, code, reason).
targetClosed ==
    \E code \in CloseCodes :
        /\ connection.targetWs \in {"open", "closing"}
        /\ connection' = closeConnection([connection EXCEPT !.targetWs = "closed"],
                                          code)
        /\ fromServer' = <<>>
        /\ wsLast' = [op |-> "targetClosed", frame |-> 0, code |-> code]
        /\ UNCHANGED <<others, fromClient, toServer, toClient>>

\* "timeSinceActivity > this.config.connectionTimeout" at a sweep: sweeps are
\* pingInterval apart, so more than connectionTimeout has passed at the sweep
\* that follows connectionTimeout earlier ones.
timedOut(conn) == conn.idle >= connectionTimeout

\* One sweep of startHeartbeat over the table: for the record, when it is in
\* the table, closeConnection(id, 1001) when it timed out, clientWs.ping()
\* otherwise.
heartbeat ==
    /\ connection' =
           IF ~connection.inTable THEN connection
           ELSE IF timedOut(connection) THEN closeConnection(connection, 1001)
           ELSE [connection EXCEPT
                    !.idle = @ + 1,
                    !.silence = IF @ > connectionTimeout THEN @ ELSE @ + 1]
    /\ wsLast' = [op |-> "heartbeat", frame |-> 0,
                  code |-> IF connection.inTable /\ timedOut(connection)
                           THEN 1001 ELSE 0]
    /\ UNCHANGED <<others, fromClient, fromServer, toServer, toClient>>

\* The 'pong' event of clientWs, the client's answer to the ping of the last
\* sweep.
pong ==
    /\ connection.inTable
    /\ connection.clientWs = "open"
    /\ connection.idle > 0
    /\ connection' = [connection EXCEPT !.idle = 0]
    /\ wsLast' = [op |-> "pong", frame |-> 0, code |-> 0]
    /\ UNCHANGED <<others, fromClient, fromServer, toServer, toClient>>

(***************************************************************************)
(*                 RequestRouter and HttpProxyService                      *)
(*                                                                         *)
(* A pathname is the sequence of its segments after the leading "/":       *)
(* "/" is <<EmptySegment>>, "/a/x" is <<a, x>>, "/a/x/" is                 *)
(* <<a, x, EmptySegment>>.  A segment is a server name or the empty        *)
(* string; a name that is never registered stands for any other segment.   *)
(* No name contains "*" and all are lower case.                            *)
(***************************************************************************)
VARIABLES
    servers,        \* RequestRouter.servers: name -> descriptor
    listening,      \* the HTTP server of the application accepts requests
    gwLast,         \* the last call: the request, what was forwarded, the answer
    app             \* ProxyApplication: where stop() is, and its services

gwVars == <<servers, listening, gwLast, app>>

MaxSegments == 3        \* segments of a request pathname
MaxServers == 1         \* servers registered at the same time

EmptySegment == 0       \* the empty string between two slashes

Segments == {EmptySegment} \cup Names

Pathnames == UNION {[1..k -> Segments] : k \in 1..MaxSegments}

\* url.search: empty, or "?" and the query string.
Searches == {"", "?y=1"}

Methods == {"GET", "POST"}

Requests == [method : Methods, pathname : Pathnames, search : Searches]

\* The name whose record and children the ProcessManager model follows.
managed == Min(Names)

\* processManager.getProcessInfo(name)
getProcessInfo(name) == IF name = managed THEN processInfo ELSE NoInfo

\* pathname.split('/').filter(Boolean)
pathSegments(pathname) == SelectSeq(pathname, LAMBDA s : s # EmptySegment)

\* No request, nothing forwarded.
NoForward == [method |-> "", pathname |-> <<>>, search |-> ""]

\* matchRoute: the name matched (0 for null) and the target path.  The
\* wildcard pass matches a server key without "*" by equality, so it finds
\* nothing the lookup has not found.
matchRoute(segments, fullPath, stripServerPrefix) ==
    IF segments = <<>> \/ Head(segments) \notin DOMAIN servers
    THEN [server |-> 0, path |-> <<>>]
    ELSE [server |-> Head(segments),
          path |-> IF stripServerPrefix /\ Len(segments) > 1 THEN Tail(segments)
                   ELSE IF ~stripServerPrefix THEN fullPath
                   ELSE <<EmptySegment>>]

\* The test of proxyToStdioServer on the supervisor's record, accepting a
\* record that is starting (mutant).
NotRunningOrStarting(info) == info.state \notin {"running", "starting"}

\* "!processInfo || processInfo.state !== 'running'"
notRunning(info) == info.state # "running"

\* proxyToStdioServer and handleProxyError: where the request is sent, and
\* the status the proxy answers with before sending anything (0: the request
\* was sent; the answer is the backend's response or, on a connection error,
\* the one handleProxyError derives from it); state is the state it read
\* from the supervisor's record.
proxyToStdioServer(name) ==
    LET port == getPortForServer(name)
        info == getProcessInfo(name)
    IN  IF port = NoPort
        THEN [to |-> "none", port |-> NoPort, state |-> "none", status |-> 503]
        ELSE IF notRunning(info)
        THEN [to |-> "none", port |-> NoPort, state |-> info.state, status |-> 503]
        ELSE [to |-> "port", port |-> port, state |-> info.state, status |-> 0]

\* proxyToHttpServer: the request goes to the configured URL.
proxyToHttpServer == [to |-> "url", port |-> NoPort, state |-> "none", status |-> 0]

\* proxyRequest(req, res, server)
proxyRequest(name) ==
    IF servers[name].detectedType = "http" THEN proxyToHttpServer
    ELSE proxyToStdioServer(name)

\* routeRequest(req, res): the call record without its op field.
routeRequest(req, stripServerPrefix) ==
    LET routeMatch == matchRoute(pathSegments(req.pathname), req.pathname,
                                 stripServerPrefix)
        answer == proxyRequest(routeMatch.server)
    IN  IF routeMatch.server = 0
        THEN [req |-> req, strip |-> stripServerPrefix, routed |-> 0,
              fwd |-> NoForward, to |-> "none", port |-> NoPort, state |-> "none",
              status |-> 0]
        ELSE [req |-> req, strip |-> stripServerPrefix, routed |-> routeMatch.server,
              fwd |-> IF answer.to = "none" THEN NoForward
                      ELSE IF stripServerPrefix
                      THEN [req EXCEPT !.pathname = routeMatch.path]
                      ELSE req,
              to |-> answer.to, port |-> answer.port, state |-> answer.state,
              status |-> answer.status]

GwCall(op, call) ==
    [op |-> op, req |-> call.req, strip |-> call.strip, routed |-> call.routed,
     fwd |-> call.fwd, to |-> call.to, port |-> call.port, state |-> call.state,
     status |-> call.status]

NoCall ==
    [req |-> NoForward, strip |-> TRUE, routed |-> 0, fwd |-> NoForward,
     to |-> "none", port |-> NoPort, state |-> "none", status |-> 0]

\* pc: the await stop() is suspended at ("up": stop() was not called); wss:
\* the WebSocketServer of the relay; adapters: the stdio adapters created
\* ("stopping": stopAdapter runs for each, "stopped": all are deleted);
\* cleaned: cleanup() has run; made: the names createAdapter made an adapter
\* for; skipped: the names whose turn of setupServers ended in its catch.
AppUp ==
    [pc |-> "up", wss |-> "open", adapters |-> "none", cleaned |-> FALSE,
     made |-> {}, skipped |-> {}]

GwInit ==
    /\ servers = EmptyMap
    /\ listening = FALSE
    /\ gwLast = GwCall("new", NoCall)
    /\ app = AppUp

\* registerServer(server)
RegisterServer ==
    \E name \in Names, server \in Descriptors :
        /\ Cardinality(DOMAIN servers \cup {name}) <= MaxServers
        /\ servers' = MapSet(servers, name, server)
        /\ gwLast' = GwCall("registerServer", NoCall)
        /\ UNCHANGED <<listening, app>>

\* unregisterServer(serverName)
UnregisterServer ==
    \E name \in Names :
        /\ servers' = MapDelete(servers, name)
        /\ gwLast' = GwCall("unregisterServer", NoCall)
        /\ UNCHANGED <<listening, app>>

\* A call of routeRequest on a router of either configuration.
RouteRequestCall ==
    \E req \in Requests, stripServerPrefix \in BOOLEAN :
        /\ gwLast' = GwCall("routeRequest", routeRequest(req, stripServerPrefix))
        /\ UNCHANGED <<servers, listening, app>>

\* StdioHttpAdapter.allowedCommands, as far as the commands of the model go.
allowedCommands == {"node"}

\* validateCommand(command) returns without throwing.
validateCommand(command) == command # "" /\ command \in allowedCommands

\* createAdapter(server, port) returns an adapter: it refuses an http server,
\* and for a server with a command startChildProcess must validate and spawn
\* it; ok says whether listen() and spawn() succeed.
createAdapter(server, ok) ==
    /\ server.detectedType # "http"
    /\ ok
    /\ server.command # "" => validateCommand(server.command)

\* The ChildProcess that startChildProcess of the adapter spawns: an object of
\* its own, which the supervisor never holds.
AdapterKid == MaxKids + 1

\* setupServers leaving its loop at the first backend that fails (mutant).
NextBackendUnlessFailed(done, skipped) ==
    IF done = Names \/ skipped # {} THEN 0 ELSE Min(Names \ done)

\* "for (const server of this.detectedServers)": the backend whose turn is
\* next, the names in done having had theirs (0: the loop has ended).
\* detectedServers lists the names in their order.
nextBackend(done, skipped) == IF done = Names THEN 0 ELSE Min(Names \ done)

\* One turn of the loop of ProxyApplication.setupServers, up to its last
\* suspension: register the route, and for a stdio server allocate its port,
\* create its adapter and, when it has a command, start it; an error ends
\* the turn in the catch.  Only the managed server has a command and may
\* ask for restarts.
SetupServers ==
    \E server \in Descriptors, free \in ProbeResults, adapterOk, spawnOk \in BOOLEAN :
        LET name == nextBackend(DOMAIN servers, app.skipped)
            hasPort == existingPort(name) # NoPort \/ chosenPort(NoPort, free) # NoPort
            hasAdapter == hasPort /\ createAdapter(server, adapterOk)
            starts == hasAdapter /\ server.command # ""
            S == startServer(Here, server, spawnOk)
            threw == /\ server.detectedType = "stdio"
                     /\ ~hasAdapter \/ (starts /\ failed(S))
        IN  /\ ~listening /\ app.pc = "up" /\ name # 0
            /\ processInfo.state # "starting"
            /\ name # managed => server.command = "" /\ ~server.restart
            /\ servers' = MapSet(servers, name, server)
            /\ gwLast' = GwCall("setupServers", NoCall)
            /\ UNCHANGED listening
            /\ app' = [app EXCEPT
                          !.adapters = IF server.detectedType = "stdio" /\ hasAdapter
                                       THEN "up" ELSE @,
                          !.made = IF server.detectedType = "stdio" /\ hasAdapter
                                   THEN @ \cup {name} ELSE @,
                          !.skipped = IF threw THEN @ \cup {name} ELSE @]
            /\ IF server.detectedType = "stdio"
               THEN /\ allocatePort(name, NoPort, free)
                    /\ IF starts THEN Commit(S, "startServer", failed(S))
                       ELSE UNCHANGED procVars
               ELSE UNCHANGED <<pmVars, procVars>>

\* ProxyApplication.start: setupServers has returned, the start it awaited
\* has settled; the HTTP server listens.
Listen ==
    /\ ~listening /\ nextBackend(DOMAIN servers, app.skipped) = 0
    /\ processInfo.state # "starting"
    /\ app.pc = "up"
    /\ listening' = TRUE
    /\ gwLast' = GwCall("listen", NoCall)
    /\ UNCHANGED <<servers, app>>

\* Two segments that are no server name: the name of a built-in endpoint
\* ("health") and any other word.
BuiltinSegment == NumNames + 1
OtherSegment == NumNames + 2

\* The pathnames of the requests to the public listener: "/", "/health",
\* "/<word>/" and "/<name>/".
PublicPaths ==
    {<<EmptySegment>>, <<BuiltinSegment>>, <<OtherSegment, EmptySegment>>}
        \cup {<<name, EmptySegment>> : name \in Names}

\* The pathnames of the built-in endpoints.
EndpointPaths == {<<EmptySegment>>, <<BuiltinSegment>>}

\* handleBuiltinEndpoints matching no pathname (mutant).
NoBuiltinEndpoints(pathname) == FALSE

\* handleBuiltinEndpoints(req, res, pathname) returns true: the pathname is
\* that of an endpoint.
handleBuiltinEndpoints(pathname) == pathname \in EndpointPaths

\* handleHealthEndpoint: 200, or 503 when a process is failed.
handleHealthEndpoint == IF processInfo.state = "failed" THEN 503 ELSE 200

\* ProxyApplication.handleRequest: the preflight answer when CORS is enabled,
\* the built-in endpoints, routeRequest, and 404 when it returns false.  The
\* field to tells who answered ("cors", "builtin", or the proxy's own).
HandleRequest(method, pathname, enableCors) ==
    LET req == [method |-> method, pathname |-> pathname, search |-> ""]
        call == routeRequest(req, TRUE)
        answer == IF enableCors /\ method = "OPTIONS"
                  THEN [NoCall EXCEPT !.req = req, !.to = "cors", !.status = 200]
                  ELSE IF handleBuiltinEndpoints(pathname)
                  THEN [NoCall EXCEPT !.req = req, !.to = "builtin",
                                      !.status = IF pathname = <<BuiltinSegment>>
                                                 THEN handleHealthEndpoint ELSE 200]
                  ELSE IF call.routed = 0 THEN [call EXCEPT !.status = 404]
                  ELSE call
    IN  /\ gwLast' = GwCall("handleRequest", answer)
        /\ UNCHANGED <<servers, listening, app>>

\* stopAllAdapters() returning without a suspension although adapters exist
\* (mutant).
AdaptersForgotten(a) == FALSE

\* "Array.from(this.adapters.keys())" of stopAllAdapters is not empty: the
\* call is suspended until every stopAdapter has settled.
hasAdapters(a) == a.adapters = "up"

\* stop() from "await this.processManager.stopAllServers()" on, a being the
\* application so far: when no stopServer call is awaited it goes on to
\* "this.server.close(...)".
stopFromServers(a) ==
    LET S == stopAllServers(Here)
    IN  /\ Commit(S, "stopAllServers", FALSE)
        /\ IF stopAllPending(S.stops)
           THEN app' = [a EXCEPT !.pc = "stopAllServers"] /\ UNCHANGED listening
           ELSE app' = [a EXCEPT !.pc = "close"] /\ listening' = FALSE
        /\ UNCHANGED <<pmVars, servers, gwLast>>

\* adapter.childProcess of the adapter of name (0: no adapter, or none for a
\* server without a command); no handler of the adapter assigns it again.
adapterChildProcess(name) ==
    IF /\ app.adapters = "up" /\ name \in app.made
       /\ name \in DOMAIN servers /\ servers[name].command # ""
    THEN AdapterKid ELSE 0

\* A shutdown that leaves the interval of startHeartbeat armed (mutant).
HeartbeatNeverCleared(a) == TRUE

\* The interval of startHeartbeat is armed: from the constructor until the
\* clearInterval of shutdown().
heartbeatRunning(a) == a.wss = "open"

\* The WebSocketServer emits 'connection': until wss.close().
accepting(a) == a.wss = "open"

\* ProxyApplication.stop up to its first suspension, in
\* WebSocketProxyService.shutdown: every connection is closed with 1001 and
\* the WebSocketServer is closing.
Stop ==
    /\ app.pc = "up" /\ nextBackend(DOMAIN servers, app.skipped) = 0
    /\ processInfo.state # "starting"
    /\ app' = [app EXCEPT !.pc = "shutdown", !.wss = "closing"]
    /\ connection' = closeConnection(connection, 1001)
    /\ others' = 0
    /\ wsLast' = [op |-> "shutdown", frame |-> 0, code |-> 1001]
    /\ UNCHANGED <<fromClient, fromServer, toServer, toClient>>
    /\ UNCHANGED <<pmVars, procVars, stdioVars, allocVars, servers, listening, gwLast>>

\* The callback of wss.close: shutdown() returns and stop() goes on to
\* stopAllAdapters().
WssClosed ==
    /\ app.pc = "shutdown"
    /\ LET a == [app EXCEPT !.wss = "closed"]
       IN  IF hasAdapters(a)
           THEN /\ app' = [a EXCEPT !.pc = "stopAllAdapters", !.adapters = "stopping"]
                /\ UNCHANGED <<pmVars, procVars, servers, listening, gwLast>>
           ELSE stopFromServers(a)
    /\ UNCHANGED <<stdioVars, allocVars, wsVars>>

\* The last stopAdapter has settled: stopAllAdapters() returns and stop()
\* goes on to stopAllServers().
AdaptersStopped ==
    /\ app.pc = "stopAllAdapters"
    /\ stopFromServers([app EXCEPT !.adapters = "stopped"])
    /\ UNCHANGED <<stdioVars, allocVars, wsVars>>

\* A turn of the supervisor: when it settles the last stopServer call that
\* stopAllServers awaits, stop() goes on to "this.server.close(...)".
Supervised ==
    /\ IF app.pc = "stopAllServers" /\ ~stopAllPending(stops')
       THEN app' = [app EXCEPT !.pc = "close"] /\ listening' = FALSE
       ELSE UNCHANGED <<app, listening>>
    /\ UNCHANGED <<pmVars, stdioVars, allocVars, wsVars, servers, gwLast>>

\* The callback of server.close: stop() runs cleanup(), whose
\* processManager.cleanup() clears both maps (a timer armed earlier keeps its
\* descriptor) and whose portManager.cleanup() clears the allocator.
ListenerClosed ==
    /\ app.pc = "close"
    /\ app' = [app EXCEPT !.pc = "stopped", !.cleaned = TRUE]
    /\ Commit([Here EXCEPT !.info = [NoInfo EXCEPT !.server = processInfo.server],
                           !.handle = 0], "cleanup", FALSE)
    /\ pmCleanup
    /\ UNCHANGED <<stdioVars, allocVars, wsVars, servers, listening, gwLast>>

(***************************************************************************)
(*                          Specifications                                 *)
(***************************************************************************)
vars == <<pmVars, allocVars, procVars, stdioVars, wsVars, gwVars>>

Init == PmInit /\ AllocInit /\ ProcInit /\ StdioInit /\ WsInit /\ GwInit

PortsOnly == UNCHANGED <<procVars, stdioVars, allocVars, wsVars, gwVars>>

\* The port allocator alone.
PortsNext ==
    \/ AllocatePortCall /\ PortsOnly
    \/ ReservePortCall /\ PortsOnly
    \/ ReleasePortCall /\ PortsOnly
    \/ ReservationTimerFires /\ PortsOnly
    \/ CleanupCall /\ PortsOnly

SpecPorts == Init /\ [][PortsNext]_vars

AllocOnly == UNCHANGED <<procVars, stdioVars, wsVars, gwVars>>

\* allocatePort calls that overlap.
AllocNext ==
    \/ AllocatePortBegins /\ AllocOnly
    \/ ProbeAnswers /\ AllocOnly

SpecAlloc == Init /\ [][AllocNext]_vars

ProcOnly == UNCHANGED <<pmVars, stdioVars, allocVars, wsVars, gwVars>>

\* The process supervisor alone.
ProcNext ==
    \/ StartServerCall /\ ProcOnly
    \/ RestartTimerFires /\ ProcOnly
    \/ StopServerCall /\ ProcOnly
    \/ RestartServerCall /\ ProcOnly
    \/ StopAllServersCall /\ ProcOnly
    \/ ChildExits /\ ProcOnly
    \/ StableTimerFires /\ ProcOnly
    \/ StartupTimerFires /\ ProcOnly
    \/ StopWaitTimesOut /\ ProcOnly

SpecProc == Init /\ [][ProcNext]_vars

StdioOnly == UNCHANGED <<pmVars, allocVars, procVars, wsVars, gwVars>>

\* One stdio adapter alone.
StdioNext ==
    \/ \E r \in RequestIds, size \in BodySizes, valid \in BOOLEAN :
           handleHttpRequest(r, size, valid) /\ StdioOnly
    \/ \E r \in RequestIds : handleMcpRequest(r) /\ StdioOnly
    \/ \E split \in BOOLEAN, statusCode \in StatusCodes :
           childAnswers(split, statusCode) /\ StdioOnly
    \/ stdoutData /\ StdioOnly
    \/ \E r \in RequestIds : requestTimeout(r) /\ StdioOnly

SpecStdio == Init /\ [][StdioNext]_vars

WsOnly == UNCHANGED <<pmVars, procVars, stdioVars, allocVars, gwVars>>

\* The WebSocket relay alone.
WsNext ==
    \/ (\E pathOk, hasPort \in BOOLEAN : handleConnection(pathOk, hasPort)) /\ WsOnly
    \/ otherConnection /\ WsOnly
    \/ otherClosed /\ WsOnly
    \/ targetOpen /\ WsOnly
    \/ connectFailed /\ WsOnly
    \/ clientSends /\ WsOnly
    \/ serverSends /\ WsOnly
    \/ handleClientMessage /\ WsOnly
    \/ handleServerMessage /\ WsOnly
    \/ clientClosed /\ WsOnly
    \/ targetClosed /\ WsOnly
    \/ heartbeat /\ WsOnly
    \/ pong /\ WsOnly

SpecWs == Init /\ [][WsNext]_vars

RouterOnly == UNCHANGED <<pmVars, procVars, stdioVars, allocVars, wsVars>>

\* The request router alone, in front of the proxy service.
RouterNext ==
    \/ RegisterServer /\ RouterOnly
    \/ UnregisterServer /\ RouterOnly
    \/ RouteRequestCall /\ RouterOnly

SpecRouter == Init /\ [][RouterNext]_vars

\* The public listener in front of the router, for any set of routes.
PublicNext ==
    \/ RegisterServer /\ RouterOnly
    \/ UnregisterServer /\ RouterOnly
    \/ (\E method \in {"GET", "OPTIONS"}, pathname \in PublicPaths,
            enableCors \in BOOLEAN : HandleRequest(method, pathname, enableCors))
           /\ RouterOnly

SpecPublic == Init /\ [][PublicNext]_vars


\* The application: setup, then requests while the supervisor handles the
\* events of the child.  The application makes no other supervisor call, so
\* no child is signalled before its 1 s timer, which cancels the startup timer.
GatewayNext ==
    \/ SetupServers /\ UNCHANGED <<stdioVars, allocVars, wsVars>>
    \/ Listen /\ RouterOnly
    \/ (\E name \in Names : HandleRequest("GET", <<name, EmptySegment>>, TRUE))
           /\ listening /\ RouterOnly
    \/ ChildExits /\ Supervised
    \/ StableTimerFires /\ Supervised
    \/ RestartTimerFires /\ Supervised
    \/ StopWaitTimesOut /\ Supervised
    \/ handleConnection(TRUE, TRUE) /\ listening /\ accepting(app) /\ WsOnly
    \/ targetOpen /\ WsOnly
    \/ Stop
    \/ WssClosed
    \/ AdaptersStopped
    \/ ListenerClosed

SpecGateway == Init /\ [][GatewayNext]_vars

\* The relay in an application whose backends are HTTP servers, from its
\* start to the end of its shutdown.
ShutdownNext ==
    \/ SetupServers /\ UNCHANGED <<pmVars, procVars, stdioVars, allocVars, wsVars>>
    \/ Listen /\ RouterOnly
    \/ handleConnection(TRUE, TRUE) /\ listening /\ accepting(app) /\ WsOnly
    \/ otherConnection /\ listening /\ accepting(app) /\ WsOnly
    \/ targetOpen /\ WsOnly
    \/ connectFailed /\ WsOnly
    \/ clientClosed /\ WsOnly
    \/ targetClosed /\ WsOnly
    \/ heartbeat /\ heartbeatRunning(app) /\ WsOnly
    \/ pong /\ WsOnly
    \/ Stop
    \/ WssClosed
    \/ ListenerClosed

SpecShutdown == Init /\ [][ShutdownNext]_vars

(***************************************************************************)
(*                    Properties of the port allocator                     *)
(***************************************************************************)

\* C1: the two mappings agree: getPortForServer(n) = p if and only if
\* getServerForPort(p) = n, for every name n and port p.
MappingsAgree ==
    \A n \in Names, p \in AnyPorts :
        (getPortForServer(n) = p) <=> (getServerForPort(p) = n)

\* C5: every port held in the allocation table (allocations and nameToPort)
\* lies within [startPort, endPort], also after allocatePort was given a
\* preferred port outside the range.
AllocatedPortsInRange ==
    /\ DOMAIN allocations \subseteq RangePorts
    /\ \A n \in DOMAIN nameToPort : nameToPort[n] \in RangePorts

\* C5 witness: allocatePort for a name without a port was given a preferred
\* port outside the range that the OS reported free, and returned a port of
\* the range.
PreferredOutsideIgnored ==
    /\ pmLast.op = "allocatePort" /\ pmLast.ok
    /\ pmLast.port \in OutPorts
    /\ pmLast.ret \in RangePorts
    /\ getPortForServer(pmLast.name) = pmLast.ret

\* C7: allocatePort(n) for a name n that already holds a port returns that
\* port and leaves allocations and nameToPort unchanged, whatever the
\* preferred port.
AllocateIdempotent ==
    [][(pmLast'.op = "allocatePort" /\ pmLast'.name \in DOMAIN nameToPort)
         => /\ pmLast'.ok
            /\ pmLast'.ret = nameToPort[pmLast'.name]
            /\ UNCHANGED <<allocations, nameToPort>>]_vars

\* C7 witness: allocatePort was called for a name holding a port while a port
\* of the range was unallocated, and returned the port held.
AllocateAgainReturned ==
    /\ pmLast.op = "allocatePort" /\ pmLast.ok
    /\ pmLast.had # NoPort
    /\ RangePorts \ DOMAIN allocations # {}
    /\ pmLast.ret = pmLast.had

\* C8: releasePort(n) for a name that has an allocation (allocated and not
\* released since) returns true and removes both mappings and the reservation
\* of n; releasePort(n) for a name without one returns false and changes
\* nothing.
ReleaseTrueOnceThenFalse ==
    [][pmLast'.op = "releasePort"
         => IF pmLast'.name \in DOMAIN nameToPort
            THEN /\ pmLast'.ok
                 /\ pmLast'.name \notin DOMAIN nameToPort'
                 /\ \A p \in DOMAIN allocations' :
                        allocations'[p].serverName # pmLast'.name
                 /\ nameToPort[pmLast'.name] \notin DOMAIN reservations'
            ELSE /\ ~pmLast'.ok
                 /\ UNCHANGED <<allocations, nameToPort, reservations, pmTimers>>]_vars

\* C10: when every port of the range is allocated, allocatePort for a name
\* without a port fails and leaves allocations and nameToPort unchanged.
ExhaustedAllocateFails ==
    [][(/\ pmLast'.op = "allocatePort"
        /\ pmLast'.name \notin DOMAIN nameToPort
        /\ RangePorts \subseteq DOMAIN allocations)
         => /\ ~pmLast'.ok
            /\ UNCHANGED <<allocations, nameToPort>>]_vars

(***************************************************************************)
(*                  Properties of the process supervisor                   *)
(***************************************************************************)

\* C3: a record that has a pid set is in state starting, running or stopping:
\* no record in state idle, stopped or failed carries a pid.
PidOnlyWhileActive ==
    processInfo.pid # 0 => processInfo.state \in {"starting", "running", "stopping"}

\* C4: restartCount never exceeds maxRestarts.
RestartCountBounded == processInfo.restartCount <= maxRestarts

\* C4 witness: a restartable server has failed, its child exiting during
\* startup, with restartCount at the limit and every restart timer fired: its
\* last failure scheduled no restart.
RestartsExhausted ==
    /\ processInfo.server.restart
    /\ processInfo.state = "failed"
    /\ processInfo.restartCount = maxRestarts
    /\ restartTimers = 0
    /\ processInfo.pid # 0 /\ processInfo.lastError = "ExitedDuringStartup"

\* C9: stopServer on a record in state stopped or stopping returns without
\* error, sends no signal, emits no event and leaves the record, the child
\* handle, the children and the pending timers unchanged.
StopAgainIsNoop ==
    [][(procLast'.op = "stopServer" /\ processInfo.state \in {"stopped", "stopping"})
         => /\ ~procLast'.threw
            /\ procLast'.sig = <<>>
            /\ procLast'.out = <<>>
            /\ UNCHANGED <<processInfo, childHandle, kids, stops, restartTimers>>]_vars

\* C9 witness: stopServer has returned from a call on a record that a
\* completed stop had left in state stopped.
StopAgainReturned ==
    /\ procLast.op = "stopServer" /\ ~procLast.threw
    /\ procLast.before = "stopped"
    /\ processInfo.state = "stopped" /\ processInfo.stoppedAt
    /\ processInfo.pid # 0

\* The crash loop has used up its restarts: the record is failed after
\* maxRestarts automatic restarts.
Exhausted ==
    /\ scenario.stage = "flaky"
    /\ scenario.restarts = maxRestarts
    /\ processInfo.state = "failed"

\* C11: in a crash-loop run (restart = true, every child exits after it has
\* reached running, no manual call) the supervisor performs at most
\* maxRestarts automatic restarts; once they are used up and the record is
\* failed, no timer is pending and no child is alive, and every turn other
\* than a manual call leaves the record failed and spawns no child.
CrashLoopEnds ==
    [][/\ scenario'.stage = "flaky" => scenario'.restarts <= maxRestarts
       /\ Exhausted' => /\ restartTimers' = 0
                         /\ \A c \in KidIds : kids'[c].st # "alive"
       /\ (Exhausted /\ procLast'.op \notin {"startServer", "stopServer", "restartServer"})
            => /\ processInfo'.state = "failed"
               /\ \A c \in KidIds : kids'[c].st # "alive"]_vars

\* C11 witness: a crash-loop run has used up its maxRestarts restarts: the
\* last child spawned by a restart timer has reached running and exited.
CrashLoopExhausted ==
    /\ Exhausted
    /\ procLast.op = "exit" /\ procLast.before = "running"
    /\ processInfo.restartCount = maxRestarts

\* C17: restartCount is lowered only by restartServer, in the turn of the
\* call or in the turn of the 'exit' event that lets a restartServer go on
\* after its stop; no other turn (a start that succeeds, a timer, a crash, a
\* stop) lowers it.  A restartServer call that goes on to start at once
\* leaves the count at the restarts scheduled since it set it to zero, and
\* at zero when its start is under way; so does one that goes on after the
\* exit of the child it stopped.
RestartCountResetOnlyManually ==
    [][/\ processInfo'.restartCount < processInfo.restartCount
            => \/ procLast'.op = "restartServer"
               \/ /\ procLast'.op = "exit"
                  /\ \E i \in 1..Len(stops) : stops[i].origin = "restart"
       /\ (/\ procLast'.op = "restartServer" /\ ~procLast'.threw
           /\ processInfo.state \notin {"absent", "running", "starting"})
            => /\ processInfo'.restartCount = restartTimers' - restartTimers
               /\ processInfo'.state = "starting" => processInfo'.restartCount = 0
       /\ (/\ procLast'.op = "restartServer"
           /\ processInfo.state \notin {"absent", "running", "starting"})
            => processInfo'.restartCount <= 1
       /\ (/\ procLast'.op = "exit"
           /\ \E i \in 1..Len(stops) :
                  /\ stops[i].origin = "restart"
                  /\ kids[stops[i].child].st = "alive"
                  /\ kids'[stops[i].child].st # "alive")
            => /\ processInfo'.restartCount <= 1
               /\ processInfo'.state = "starting" => processInfo'.restartCount = 0]_vars

\* C17 witness

\* C17 witness: restartServer has set to zero a count that automatic restarts
\* had raised (one of their timers is still pending) and its start is under
\* way.
RestartServerResetCount ==
    /\ procLast.op = "restartServer" /\ ~procLast.threw
    /\ procLast.before = "failed"
    /\ processInfo.state = "starting"
    /\ processInfo.restartCount = 0
    /\ restartTimers > 0

\* C18: startServer on a record in state running or starting returns without
\* action: it does not throw, emits no event, sends no signal, spawns no
\* child, and leaves the record (state, pid, startedAt, restartCount,
\* lastError), the child handle, the children and the pending stops
\* unchanged; so does the startServer call of a restart timer.
StartAgainIsNoop ==
    [][(/\ procLast'.op \in {"startServer", "restartTimer"}
        /\ processInfo.state \in {"running", "starting"})
         => /\ ~procLast'.threw
            /\ procLast'.out = <<>>
            /\ procLast'.sig = <<>>
            /\ UNCHANGED <<processInfo, childHandle, kids, stops>>
            /\ procLast'.op = "startServer" => UNCHANGED restartTimers]_vars

\* C18 witness: startServer has returned from a call on a record that was
\* running with a live child, after an automatic restart.
StartAgainReturned ==
    /\ procLast.op = "startServer" /\ ~procLast.threw
    /\ procLast.before = "running"
    /\ processInfo.state = "running" /\ processInfo.pid # 0
    /\ processInfo.restartCount > 0
    /\ \E c \in KidIds : kids[c].st = "alive"

\* C19: startServer on an http descriptor or on a descriptor without a
\* command is rejected and, on the first attempt and on every later one,
\* neither puts the record in state failed nor schedules an auto-restart.
UnspawnableStartLeavesNoFailure ==
    [][(/\ procLast'.op = "startServer"
        /\ \/ processInfo'.server.detectedType = "http"
           \/ processInfo'.server.command = "")
         => /\ procLast'.threw
            /\ processInfo'.state # "failed"
            /\ restartTimers' = restartTimers]_vars

\* C16: no child process is ever spawned for a descriptor whose command is
\* outside the allowlist: no child of the supervisor is alive unless the
\* command of its descriptor passes validateCommand.
NoChildForDisallowedCommand ==
    \A c \in KidIds :
        kids[c].st = "alive" => validateCommand(processInfo.server.command)

(***************************************************************************)
(*               Properties of the router and the HTTP proxy               *)
(***************************************************************************)

\* C12: a request routed to a stdio backend is sent to its loopback port only
\* when the allocator holds a port for the name and the supervisor's record
\* of the name is running; otherwise it is answered 503.  No route is ever
\* removed, so a request for a registered name is never answered 404.
StdioForwardedOnlyWhenRunning ==
    [][/\ \A n \in DOMAIN servers : n \in DOMAIN servers'
       /\ (/\ gwLast'.op = "handleRequest"
           /\ UNCHANGED <<pmVars, procVars, wsVars, servers, listening, app>>)
            => LET name == gwLast'.req.pathname[1]
               IN  (name \in DOMAIN servers /\ servers[name].detectedType = "stdio")
                     => IF /\ getPortForServer(name) # NoPort
                           /\ getProcessInfo(name).state = "running"
                        THEN /\ gwLast'.to = "port"
                             /\ gwLast'.port = getPortForServer(name)
                        ELSE /\ gwLast'.to = "none"
                             /\ gwLast'.status = 503]_vars

\* C12 witness: a request for the stdio backend was answered 503 while its
\* record was failed and its port still allocated, after the backend had
\* been running.
FailedBackendAnswered503 ==
    /\ gwLast.op = "handleRequest" /\ gwLast.routed = managed
    /\ gwLast.status = 503 /\ gwLast.state = "failed"
    /\ getPortForServer(managed) # NoPort
    /\ processInfo.stoppedAt

\* C13: with stripServerPrefix enabled, a request for /<name>/<rest>?<query>
\* with a registered name is routed to that server and forwarded with the
\* same method, the path /<rest> and the same query string; /<name> alone is
\* forwarded as /.
PrefixStrippedQueryKept ==
    (/\ gwLast.op = "routeRequest" /\ gwLast.strip
     /\ Head(gwLast.req.pathname) \in DOMAIN servers)
      => /\ gwLast.routed = Head(gwLast.req.pathname)
         /\ gwLast.to # "none"
              => /\ gwLast.fwd.method = gwLast.req.method
                 /\ gwLast.fwd.search = gwLast.req.search
                 /\ gwLast.fwd.pathname =
                        IF Len(gwLast.req.pathname) = 1 THEN <<EmptySegment>>
                        ELSE Tail(gwLast.req.pathname)

(***************************************************************************)
(*                    Properties of the stdio adapter                      *)
(***************************************************************************)

\* C2: at no time are two requests outstanding at the child, that is written
\* to its stdin and still waiting for their reply.
OneRequestOutstanding ==
    Cardinality({r \in RequestIds : requests[r].phase = "waiting"}) <= 1

\* C14: when the child answers a request with the reply {statusCode: S,
\* body: B}, the HTTP client receives status S, or 200 when statusCode is
\* omitted, and body B.
ReplyStatusAndBodyDelivered ==
    \A r \in RequestIds :
        requests[r].response # NoResponse
          => /\ requests[r].status = statusOr200(requests[r].response.statusCode)
             /\ requests[r].sent = requests[r].response.body

\* C15: a request whose body is exactly maxBufferSize bytes is accepted and
\* written to the child; a request whose body is one byte longer is answered
\* 413 and is never written to the child's stdin.
BodyLimitAnswered413 ==
    \A r \in RequestIds :
        /\ (/\ requests[r].size = maxBufferSize /\ requests[r].valid
            /\ requests[r].phase \in {"waiting", "done"})
             => requests[r].written
        /\ (requests[r].size = maxBufferSize + 1 /\ requests[r].phase = "done")
             => requests[r].status = 413 /\ ~requests[r].written

(***************************************************************************)
(*                   Properties of the WebSocket relay                     *)
(***************************************************************************)

\* C20: the number of connection records never exceeds maxConnections: an
\* upgrade that arrives while the count equals maxConnections is closed with
\* code 1008 and adds no record.
ConnectionLimitKept ==
    [][/\ getConnectionCount' <= maxConnections
       /\ (/\ wsLast'.op \in {"handleConnection", "otherConnection"}
           /\ getConnectionCount = maxConnections)
            => /\ wsLast'.code = 1008
               /\ getConnectionCount' = getConnectionCount
               /\ connection'.inTable = connection.inTable]_vars

\* C20 witness: the upgrade of the client was closed with code 1008 while the
\* table held maxConnections records of other clients, and added no record.
UpgradeRejectedAtLimit ==
    /\ wsLast.op = "handleConnection" /\ wsLast.code = 1008
    /\ others = maxConnections
    /\ ~connection.inTable /\ connection.clientWs = "closing"

\* C6: the frames the relay sends to the backend are frames the client sent,
\* each at most once and in the order the client sent them; the same holds
\* for the frames it sends to the client.
FramesRelayedOnceInOrder ==
    /\ \A i \in 1..Len(toServer) : toServer[i] \in 1..connection.sentClient
    /\ \A i \in 1..Len(toClient) : toClient[i] \in 1..connection.sentServer
    /\ \A i, j \in 1..Len(toServer) : i < j => toServer[i] < toServer[j]
    /\ \A i, j \in 1..Len(toClient) : i < j => toClient[i] < toClient[j]

\* C6 witness: the relay has forwarded two frames or more in each direction.
FramesRelayedBothWays == Len(toServer) >= 2 /\ Len(toClient) >= 2

\* C21: when the client or the backend closes a relayed connection with code
\* c, the relay closes the other socket with the same code c and removes the
\* connection record.
CloseCodePropagated ==
    [][/\ (/\ wsLast'.op = "clientClosed"
           /\ connection.inTable /\ connection.connected
           /\ connection.targetWs = "open")
            => /\ connection'.closedTarget = wsLast'.code
               /\ ~connection'.inTable
       /\ (/\ wsLast'.op = "targetClosed"
           /\ connection.inTable /\ connection.clientWs = "open")
            => /\ connection'.closedClient = wsLast'.code
               /\ ~connection'.inTable]_vars

\* C22: a relayed connection does not stay in the table once more than
\* connectionTimeout has passed without a message frame: the heartbeat sweep
\* that finds it so closes it with code 1001.
SilentConnectionClosed ==
    (connection.inTable /\ connection.connected)
        => connection.silence <= connectionTimeout

(***************************************************************************)
(*                    Properties of the application                        *)
(***************************************************************************)

\* C23: shutdown runs its steps in order, each after the one before it has
\* completed: the adapters are stopped only once the WebSocket server is
\* closed, the supervised servers only once the adapters are stopped, the
\* listener is closed only once stopAllServers has settled, and cleanup runs
\* only once the listener is closed.
ShutdownInOrder ==
    /\ app.adapters \in {"stopping", "stopped"} => app.wss = "closed"
    /\ (stopAllPending(stops) \/ app.pc \in {"stopAllServers", "close", "stopped"})
         => app.wss = "closed" /\ app.adapters \in {"none", "stopped"}
    /\ app.pc \in {"close", "stopped"} => ~stopAllPending(stops) /\ ~listening
    /\ app.cleaned => app.pc = "stopped"
    /\ app.pc = "stopped" => app.cleaned

\* C23 witness: shutdown has run to its end, having waited for the relay,
\* for an adapter and for a supervised server that had been running.
ShutdownCompleted ==
    /\ app.pc = "stopped" /\ app.cleaned
    /\ app.adapters = "stopped" /\ app.wss = "closed"
    /\ procLast.op = "cleanup" /\ ~listening
    /\ connection.closedClient = 1001

\* What setupServers leaves for a backend it set up: its route, and for a
\* stdio backend its port and its adapter.
reachable(name) ==
    /\ name \in DOMAIN servers
    /\ servers[name].detectedType = "stdio"
         => getPortForServer(name) # NoPort /\ name \in app.made

\* C24: a backend whose setup fails is skipped and setup goes on: once the
\* gateway listens every backend has had its turn, and until shutdown every
\* backend whose own setup did not fail is reachable, whatever happened to
\* the backends before and after it.
SetupSkipsFailedBackend ==
    /\ listening => DOMAIN servers = Names
    /\ app.pc = "up"
         => \A name \in DOMAIN servers : name \notin app.skipped => reachable(name)

\* C24 witness: three stdio backends and two ports; the third backend found
\* no port and was skipped, the first two are reachable and the gateway
\* listens.
ThirdBackendSkipped ==
    /\ listening /\ app.pc = "up"
    /\ \A name \in Names : servers[name].detectedType = "stdio"
    /\ app.skipped = {NumNames}
    /\ getPortForServer(NumNames) = NoPort
    /\ \A name \in Names \ {NumNames} : reachable(name)
    /\ Cardinality({getPortForServer(name) : name \in Names \ {NumNames}}) = NumPorts

\* Whether routeRequest finds a backend for the first segment of pathname.
routed(pathname) ==
    pathSegments(pathname) # <<>> /\ Head(pathSegments(pathname)) \in DOMAIN servers

\* C25 as stated: a request is answered 404 by the gateway if and only if its
\* pathname is no built-in endpoint and routeRequest finds no backend for it.
NotFoundIffUnmatched ==
    [][gwLast'.op = "handleRequest" /\ UNCHANGED servers
         => (gwLast'.status = 404
               <=> /\ gwLast'.req.pathname \notin EndpointPaths
                   /\ ~routed(gwLast'.req.pathname))]_vars

\* C25 amended: a request that is not answered as a CORS preflight is
\* answered 404 by the gateway if and only if its pathname is no built-in
\* endpoint and routeRequest finds no backend for it; a request for which
\* routeRequest found a backend gets the proxy's answer alone, a forwarded
\* request or 503.
NotFoundIffUnmatchedNoPreflight ==
    [][(gwLast'.op = "handleRequest" /\ UNCHANGED servers /\ gwLast'.to # "cors")
         => /\ gwLast'.status = 404
                 <=> /\ gwLast'.req.pathname \notin EndpointPaths
                     /\ ~routed(gwLast'.req.pathname)
            /\ (/\ gwLast'.req.pathname \notin EndpointPaths
                /\ routed(gwLast'.req.pathname))
                 => /\ gwLast'.routed = Head(gwLast'.req.pathname)
                    /\ gwLast'.status \in {0, 503}
                    /\ gwLast'.status = 0 <=> gwLast'.to \in {"port", "url"}]_vars

\* C25 witness: a request for a word that is no endpoint and no registered
\* name was answered 404 while a backend was registered.
UnmatchedAnswered404 ==
    /\ gwLast.op = "handleRequest" /\ gwLast.status = 404
    /\ gwLast.req.pathname = <<OtherSegment, EmptySegment>>
    /\ gwLast.req.method = "GET"
    /\ servers # EmptyMap

(***************************************************************************)
(*                 Properties of overlapping allocations                   *)
(***************************************************************************)

\* C26: allocatePort calls that overlap never leave two names mapped to the
\* same port, nor one name holding two entries of the allocation table.
OverlappingAllocationsDisjoint ==
    /\ \A a, b \in DOMAIN nameToPort : a # b => nameToPort[a] # nameToPort[b]
    /\ \A name \in Names :
           Cardinality({p \in DOMAIN allocations :
                           allocations[p].serverName = name}) <= 1

(***************************************************************************)
(*                 Properties of restarts and of stopping                  *)
(***************************************************************************)

\* C27: a turn without a failed start or a crash arms no restart timer; a
\* turn with one of them arms one timer if and only if the descriptor asks for
\* restarts and restartCount is below maxRestarts, and then adds exactly one to
\* restartCount.  (Turns in which restartServer resets the count are left
\* out.)  A timer that fires re-enters startServer with the descriptor of the
\* record.
RestartScheduledIffAllowed ==
    [][LET out == procLast'.out
           fails == Cardinality({i \in 1..Len(out) :
                        out[i] \in {"serverFailed", "serverStopped:crashed"}})
           fired == IF procLast'.op = "restartTimer" THEN 1 ELSE 0
           armed == restartTimers' - restartTimers + fired
           resets == \/ procLast'.op = "restartServer"
                     \/ \E i \in 1..Len(stops) : stops[i].origin = "restart"
       IN  /\ fails = 0 => armed = 0
           /\ (fails = 0 /\ ~resets)
                => processInfo'.restartCount = processInfo.restartCount
           /\ (fails = 1 /\ ~resets)
                => /\ armed = 1 <=> /\ processInfo'.server.restart
                                    /\ processInfo.restartCount < maxRestarts
                   /\ armed \in {0, 1}
                   /\ processInfo'.restartCount = processInfo.restartCount + armed
           /\ procLast'.op = "restartTimer"
                => /\ processInfo'.server = processInfo.server
                   /\ processInfo.state \notin {"running", "starting"}
                        => Len(out) > 0 /\ out[1] = "serverStarting"]_vars

\* C27 witness: a crash of a running child armed a timer, which has fired and
\* started the server again; the count is one.
CrashRestarted ==
    /\ procLast.op = "restartTimer" /\ processInfo.state = "starting"
    /\ processInfo.restartCount = 1 /\ processInfo.stoppedAt
    /\ processInfo.server.restart

\* C28: at most one auto-restart timer is pending for the backend at any
\* time.
OneRestartTimerPending == restartTimers <= 1

\* The serverStopped events of reason "reason" emitted by the last turn.
stoppedEvents(reason) ==
    Cardinality({i \in 1..Len(procLast.out) : procLast.out[i] = "serverStopped:" \o reason})

\* C29: stopServer on a running server moves the record to stopping and sends
\* the signal; when the child exits during the graceful wait the record
\* becomes stopped with one serverStopped event of reason manual; when the
\* wait times out SIGKILL is sent, and when the child exits during the forced
\* wait the record becomes stopped with one event of reason forced.  Every
\* stopServer call that was suspended on a live child ends with the record in
\* state stopped.
StopServerEndsStopped ==
    [][/\ (procLast'.op = "stopServer" /\ processInfo.state = "running"
            /\ childHandle # 0 /\ processInfo.pid # 0)
          => /\ processInfo'.state = "stopping"
             /\ Len(procLast'.sig) = 1
             /\ procLast'.sig[1] \in {"SIGTERM", "SIGINT"}
       /\ (Len(stops) = 1 /\ stops[1].origin = "caller")
          => /\ (procLast'.op = "exit" /\ stops' = <<>>)
                => /\ processInfo'.state = "stopped"
                   /\ processInfo'.stoppedAt
                   /\ IF stops[1].phase = "graceful"
                      THEN stoppedEvents("manual")' = 1 /\ stoppedEvents("forced")' = 0
                      ELSE stoppedEvents("forced")' = 1 /\ stoppedEvents("manual")' = 0
             /\ (procLast'.op = "stopTimeout" /\ stops[1].phase = "graceful")
                => /\ procLast'.sig = <<"SIGKILL">>
                   /\ Len(stops') = 1 /\ stops'[1].phase = "forced"
                   /\ processInfo'.state = processInfo.state
             /\ stops' = <<>> => processInfo'.state = "stopped"]_vars

\* C30: in the turn in which a stopAllServers call resolves (the call itself
\* when it has nothing to await, else the turn that settles the stopServer it
\* awaits), the record is not in state running.
StopAllLeavesNoneRunning ==
    [][(\/ procLast'.op = "stopAllServers" /\ ~stopAllPending(stops')
        \/ stopAllPending(stops) /\ ~stopAllPending(stops'))
       => processInfo'.state # "running"]_vars

(***************************************************************************)
(*                     Properties of reservations                          *)
(***************************************************************************)
\* The timers a turn took out of the pending set: the one that fired and the
\* ones cleared.
timersGone == DOMAIN pmTimers \ DOMAIN pmTimers'

\* C31: a reservePort that succeeds marks the port reserved and arms one
\* timer for it; when a reservation timer fires on an allocated port the
\* reserved flag is false afterwards and both mappings are as they were; a
\* releasePort that succeeds cancels the timer recorded for the port.
ReservationArmedExpiredCancelled ==
    [][/\ (pmLast'.op = "reservePort" /\ pmLast'.ok)
          => /\ allocations'[pmLast'.ret].reserved
             /\ DOMAIN pmTimers \subseteq DOMAIN pmTimers'
             /\ Cardinality(DOMAIN pmTimers' \ DOMAIN pmTimers) = 1
             /\ \A t \in DOMAIN pmTimers' \ DOMAIN pmTimers :
                    pmTimers'[t] = pmLast'.ret /\ reservations'[pmLast'.ret] = t
       /\ pmLast'.op = "releaseReservation"
          => \A t \in timersGone :
                 pmTimers[t] \in DOMAIN allocations
                     => /\ DOMAIN allocations' = DOMAIN allocations
                        /\ ~allocations'[pmTimers[t]].reserved
                        /\ allocations'[pmTimers[t]].serverName
                               = allocations[pmTimers[t]].serverName
                        /\ nameToPort' = nameToPort
       /\ (pmLast'.op = "releasePort" /\ pmLast'.ok)
          => (pmLast'.ret \in DOMAIN reservations
                 => reservations[pmLast'.ret] \notin DOMAIN pmTimers')]_vars

\* C31 witness: a reservation timer has fired on an allocated port, which is
\* still allocated and no longer reserved.
ReservationExpired ==
    /\ pmLast.op = "releaseReservation"
    /\ \E n \in DOMAIN nameToPort :
           /\ nameToPort[n] \in DOMAIN allocations
           /\ allocations[nameToPort[n]].serverName = n
           /\ ~allocations[nameToPort[n]].reserved

\* C40: a reserved port loses its reservation through a timer only when the
\* timer that fires is the one armed by the last reservePort for the port
\* (the one recorded in reservations); a timer armed by an earlier reservePort
\* never clears it.
ReservationOutlivesEarlierTimers ==
    [][pmLast'.op = "releaseReservation"
       => \A p \in DOMAIN allocations :
              (allocations[p].reserved /\ ~allocations'[p].reserved)
                  => p \in DOMAIN reservations /\ timersGone = {reservations[p]}]_vars

(***************************************************************************)
(*                 Properties of the stdio adapter's requests              *)
(***************************************************************************)
\* C33: a request that fails validateAndSanitiseRequest (its body within the
\* limit) is answered with status 400 and nothing is written to the child's
\* stdin for it.
InvalidAnswered400 ==
    \A r \in RequestIds :
        (requests[r].phase = "done" /\ ~requests[r].valid
            /\ ~tooLarge(requests[r].size))
        => requests[r].status = 400 /\ ~requests[r].written

\* C32: what the child writes to stdout after a request timed out and before
\* the next write to its stdin never becomes part of the reply of another
\* request: no request that is waiting or was answered from a reply has
\* accumulated such a chunk of a reply to a different request.
LateBytesDiscarded ==
    \A r \in RequestIds :
        (\/ requests[r].phase = "waiting"
         \/ requests[r].phase = "done" /\ requests[r].status # 500)
        => \A i \in 1..Len(requests[r].responseData) :
               requests[r].responseData[i].late
                   => requests[r].responseData[i].of = r

(***************************************************************************)
(*                  Properties of the relay's shutdown                     *)
(***************************************************************************)
\* C34: shutdown closes every socket of the table that is open with code 1001
\* and empties the table; once it has begun no heartbeat sweep runs; when it
\* has completed the table is empty.
ShutdownClosesRelay ==
    [][/\ (app.pc = "up" /\ app'.pc = "shutdown")
          => /\ ~connection'.inTable /\ others' = 0
             /\ (connection.inTable /\ connection.clientWs = "open")
                => connection'.clientWs = "closing" /\ connection'.closedClient = 1001
             /\ (connection.inTable /\ connection.connected
                    /\ connection.targetWs = "open")
                => connection'.targetWs = "closing" /\ connection'.closedTarget = 1001
       /\ (wsLast'.op = "heartbeat" /\ wsLast.op # "heartbeat") => app.pc = "up"
       /\ app'.wss = "closed" => ~connection'.inTable /\ others' = 0]_vars

\* C34 witness: shutdown has completed after closing both sockets of a
\* relayed connection with 1001.
RelayShutDown ==
    /\ app.wss = "closed"
    /\ connection.closedClient = 1001 /\ connection.closedTarget = 1001
    /\ wsLast.op = "shutdown"

(***************************************************************************)
(*               Properties of the children of a backend                   *)
(***************************************************************************)
\* C35: for a stdio backend with a command the child the adapter writes
\* requests to is the child the supervisor tracks, whenever both hold one.
AdapterUsesSupervisedChild ==
    (adapterChildProcess(managed) # 0 /\ childHandle # 0)
        => adapterChildProcess(managed) = childHandle

\* C36: a startServer call that awaits the start of a child settles: the
\* turn in which the child exits while the call is pending resolves or
\* rejects it (after the exit no timer or event of the child is left that
\* could).
StartServerSettles ==
    [][\A c \in KidIds :
           (kids[c].st = "alive" /\ ~kids[c].settled /\ kids'[c].st # "alive")
           => \E i \in 1..Len(procLast'.out) :
                  procLast'.out[i] \in {"serverFailed", "serverStarted"}]_vars

\* C37: the record leaves state stopped, and a child is spawned for a stopped
\* record, only in a turn of a startServer or restartServer call of a caller
\* (for restartServer, also the turn that resumes it): never in the turn of
\* an auto-restart timer.
StoppedUntilStartedByCaller ==
    [][(processInfo.state = "stopped" /\ processInfo'.state # "stopped")
       => \/ procLast'.op \in {"startServer", "restartServer"}
          \/ \E i \in 1..Len(stops) : stops[i].origin = "restart"]_vars

\* C38: at most one child of the backend is alive, and the exit of a child
\* does not remove the handle of another child that is alive.
OneLiveChildHandleKept ==
    [][/\ Cardinality({c \in KidIds : kids'[c].st = "alive"}) <= 1
       /\ \A c \in KidIds :
              (/\ kids[c].st = "alive" /\ kids'[c].st # "alive"
               /\ childHandle \in KidIds \ {c}
               /\ kids'[childHandle].st = "alive")
              => childHandle' = childHandle]_vars

(***************************************************************************)
(*                Properties of removed relay connections                  *)
(***************************************************************************)
\* C39: once the record of a connection has been removed from the table its
\* backend socket is not open: it was closed at the removal or is closed when
\* its connect completes.
RemovedConnectionHasNoOpenTarget ==
    ~connection.inTable => connection.targetWs # "open"

=============================================================================
